---- MODULE Spec2Model ----
(***************************************************************************)
(* Quoting & fulfilment pipeline of the supply-ordering storefront.        *)
(*                                                                         *)
(* Variant A (core_use_cases, src/core/use_cases/src/lib.rs): the async    *)
(* interactors AddItemToCart, UpdateCart, GetQuote and ConfirmOrder over   *)
(* the in-memory stores of src/datastore/src/lib.rs.  Every port call is   *)
(* one step of the invocation that makes it, and every port call may       *)
(* return Err (the port traits return Result).                             *)
(*                                                                         *)
(* Variant B (core_use_cases::ordering): AddItemToCart, ViewQuote and      *)
(* SubmitQuote over the in-memory adapters of                              *)
(* src/apps/web/src/ordering/adapters.rs, modelled the same way.           *)
(***************************************************************************)
EXTENDS Integers, Sequences, FiniteSets, TLC

VARIABLES
    employees,        \* InMemoryEmployeeRepository.employees : Vec<Employee>
    carts,            \* InMemoryCartRepository.carts : HashMap<EmployeeId, Cart>
    invoices,         \* InMemoryInvoiceRepository.invoices : Vec<Invoice>
    invoice_next_id,  \* InMemoryInvoiceRepository.next_id
    quotes,           \* InMemoryQuoteRepository.quotes : Vec<QuoteRecord>
    quote_next_id,    \* InMemoryQuoteRepository.next_id
    sent,             \* InMemoryEmailGateway.sent : Vec<SentEmail>
    pc,               \* per invocation slot: the port call it is about to make
    frame,            \* per invocation slot: the locals of execute()
    result,           \* per invocation slot: what the last execute() returned
    log,              \* per invocation slot: port calls of the current/last execute()
    pre,              \* per invocation slot: the stores as they were when execute() began
    calls,            \* number of interactor invocations begun so far
    pricing,          \* AppState.pricing : the PricingPolicy every interactor is built with
    ord_employees,    \* ordering InMemoryEmployeeRepository : HashMap<String, Employee>
    ord_schools,      \* ordering InMemorySchoolRepository : HashMap<String, School>
    ord_carts,        \* ordering InMemoryCartRepository : HashMap<String, Vec<CartLineItem>>
    ord_quotes,       \* ordering InMemoryQuoteRepository : Vec<Quote>
    ord_invoices,     \* ordering InMemoryInvoiceRepository : Vec<Invoice>
    ord_outbox,       \* ordering InMemoryEmailOutbox : Vec<EmailMessage>
    employee_next_id, \* InMemoryEmployeeRepository.next_id
    sessions,         \* InMemorySessionRepository.sessions : HashMap<String, Session>
    session_next_id   \* InMemorySessionRepository.next_id

vars == <<employees, carts, invoices, invoice_next_id, quotes, quote_next_id,
          sent, pc, frame, result, log, pre, calls, pricing,
          ord_employees, ord_schools, ord_carts, ord_quotes, ord_invoices, ord_outbox,
          employee_next_id, sessions, session_next_id>>

\* The stores of the ordering module (Variant B).
ordering == <<ord_employees, ord_schools, ord_carts, ord_quotes, ord_invoices, ord_outbox>>

\* The rest of the employee repository, and the session repository.
accounts == <<employee_next_id, sessions, session_next_id>>

stores == <<employees, carts, invoices, invoice_next_id, quotes, quote_next_id, sent, accounts>>

(***************************************************************************)
(* Bounds of the model.                                                    *)
(***************************************************************************)
MaxCalls == 3          \* interactor invocations per behaviour
MaxThreads == 2        \* threads of the runtime calling into the stores at once
MaxQty == 1            \* largest quantity a request carries
MaxLineQty == 2        \* largest quantity of a sampled cart line
MaxTime == 1           \* timestamps the system clock may report: 1..MaxTime
QtyBits == 2           \* width of the model's u32 (quantities saturate at 2^QtyBits - 1)
I64Bits == 18          \* width of the model's i64 (Money's cents)

RateBase == 100000     \* divisor of Money::apply_rate_ppm
DefaultFlatFee == 495  \* PricingPolicy::default().flat_fee
DefaultTaxRatePpm == 8875

U32Max == 2 ^ QtyBits - 1

Procs == {1}           \* invocation slots: requests run one at a time

EmployeeIds == {1, 2, 3}
Shoppers == {1, 2}     \* the employees whose cart requests are explored
ProductIds == {1, 2, 3}
Quantities == 0 .. MaxQty
Timestamps == 1 .. MaxTime

\* The seeded employee store: employee 3 has never registered.
SeedEmployees ==
    << [id |-> 1, name |-> "Ann", email |-> "ann@example.com", password |-> "pw1"],
       [id |-> 2, name |-> "Bob", email |-> "bob@example.com", password |-> "pw2"] >>

\* InMemoryEmployeeRepository::new over the seed, InMemorySessionRepository::new.
AccountStores ==
    /\ employee_next_id =
           (CHOOSE id \in {SeedEmployees[i].id : i \in DOMAIN SeedEmployees} :
                \A i \in DOMAIN SeedEmployees : SeedEmployees[i].id <= id) + 1
    /\ sessions = {}
    /\ session_next_id = 1

\* The catalog (immutable Arc<Vec<Product>>): product 3 is not in it.
Products ==
    << [id |-> 1, name |-> "Apples", category |-> "Food", unit_price |-> 250],
       [id |-> 2, name |-> "Tongs", category |-> "Accessory", unit_price |-> 1099] >>

\* PricingPolicy::default(), the policy main.rs builds the application with.
DefaultPolicy == [flat_fee |-> DefaultFlatFee, tax_rate_ppm |-> DefaultTaxRatePpm]

(***************************************************************************)
(* Sequence helpers.                                                       *)
(***************************************************************************)
Range(s) == { s[i] : i \in DOMAIN s }

Min(S) == CHOOSE x \in S : \A y \in S : x <= y

RECURSIVE SumSeq(_)
SumSeq(s) == IF s = << >> THEN 0 ELSE Head(s) + SumSeq(Tail(s))

(***************************************************************************)
(* Money (src/core/entities/src/lib.rs).  Rust's / truncates toward zero.  *)
(***************************************************************************)
TruncDiv(a, b) == IF a >= 0 THEN a \div b ELSE -((-a) \div b)

Money_zero == [cents |-> 0]

Money_add(self, other) == [cents |-> self.cents + other.cents]

\* Faulty variant: the quantity is ignored.
Money_multiply_ignoring_quantity(self, quantity) == self

Money_multiply(self, quantity) == [cents |-> self.cents * quantity]

\* Faulty variant: the rate is taken in millionths.
apply_rate_ppm_rate_on_base_million(self, rate_ppm) ==
    [cents |-> TruncDiv(self.cents * rate_ppm, 1000000)]

apply_rate_ppm(self, rate_ppm) ==
    [cents |-> TruncDiv(self.cents * rate_ppm, RateBase)]

calculate_tax(policy, taxable_amount) ==
    apply_rate_ppm(taxable_amount, policy.tax_rate_ppm)

(***************************************************************************)
(* Cart (src/core/entities/src/lib.rs).                                    *)
(***************************************************************************)
Cart_empty(employee_id) == [employee_id |-> employee_id, items |-> << >>]

\* Faulty variant: no cart counts as empty.
is_empty_never(cart) == FALSE

is_empty(cart) == cart.items = << >>

\* Faulty variant: the sum wraps around at the width of u32.
saturating_add_wrapping(a, b) == (a + b) % (U32Max + 1)

saturating_add(a, b) == IF a + b > U32Max THEN U32Max ELSE a + b

FindLine(items, product_id) ==
    LET hits == { i \in DOMAIN items : items[i].product_id = product_id }
    IN  IF hits = {} THEN 0 ELSE Min(hits)

\* Faulty variant: a line is pushed even when the product already has one.
add_item_always_pushing(cart, product_id, quantity) ==
    IF quantity = 0
    THEN [ok |-> FALSE, err |-> "InvalidQuantity", cart |-> cart]
    ELSE [ok |-> TRUE, err |-> "",
          cart |-> [cart EXCEPT !.items =
                       Append(@, [product_id |-> product_id, quantity |-> quantity])]]

\* Result<(), CartError> with the cart as &mut self leaves it.
add_item(cart, product_id, quantity) ==
    IF quantity = 0
    THEN [ok |-> FALSE, err |-> "InvalidQuantity", cart |-> cart]
    ELSE LET i == FindLine(cart.items, product_id)
         IN  IF i # 0
             THEN [ok |-> TRUE, err |-> "",
                   cart |-> [cart EXCEPT !.items[i].quantity =
                                            saturating_add(@, quantity)]]
             ELSE [ok |-> TRUE, err |-> "",
                   cart |-> [cart EXCEPT !.items =
                       Append(@, [product_id |-> product_id, quantity |-> quantity])]]

\* Faulty variant: the quantity is added to the line instead of replacing it.
set_quantity_adding(cart, product_id, quantity) ==
    LET i == FindLine(cart.items, product_id)
    IN  IF i # 0
        THEN IF quantity = 0
             THEN [ok |-> TRUE, err |-> "",
                   cart |-> [cart EXCEPT !.items =
                       SelectSeq(@, LAMBDA item : item.product_id # product_id)]]
             ELSE [ok |-> TRUE, err |-> "",
                   cart |-> [cart EXCEPT !.items[i].quantity =
                                            saturating_add(@, quantity)]]
        ELSE IF quantity > 0
             THEN [ok |-> TRUE, err |-> "",
                   cart |-> [cart EXCEPT !.items =
                       Append(@, [product_id |-> product_id, quantity |-> quantity])]]
             ELSE [ok |-> FALSE, err |-> "MissingItem", cart |-> cart]

\* Faulty variant: quantity 0 for a product without a line is accepted.
set_quantity_accepting_missing(cart, product_id, quantity) ==
    LET i == FindLine(cart.items, product_id)
    IN  IF i # 0
        THEN IF quantity = 0
             THEN [ok |-> TRUE, err |-> "",
                   cart |-> [cart EXCEPT !.items =
                       SelectSeq(@, LAMBDA item : item.product_id # product_id)]]
             ELSE [ok |-> TRUE, err |-> "",
                   cart |-> [cart EXCEPT !.items[i].quantity = quantity]]
        ELSE IF quantity > 0
             THEN [ok |-> TRUE, err |-> "",
                   cart |-> [cart EXCEPT !.items =
                       Append(@, [product_id |-> product_id, quantity |-> quantity])]]
             ELSE [ok |-> TRUE, err |-> "", cart |-> cart]

\* Faulty variant: quantity 0 is stored in the line instead of removing it.
set_quantity_storing_zero(cart, product_id, quantity) ==
    LET i == FindLine(cart.items, product_id)
    IN  IF i # 0
        THEN [ok |-> TRUE, err |-> "",
              cart |-> [cart EXCEPT !.items[i].quantity = quantity]]
        ELSE IF quantity > 0
             THEN [ok |-> TRUE, err |-> "",
                   cart |-> [cart EXCEPT !.items =
                       Append(@, [product_id |-> product_id, quantity |-> quantity])]]
             ELSE [ok |-> FALSE, err |-> "MissingItem", cart |-> cart]

set_quantity(cart, product_id, quantity) ==
    LET i == FindLine(cart.items, product_id)
    IN  IF i # 0
        THEN IF quantity = 0
             THEN [ok |-> TRUE, err |-> "",
                   cart |-> [cart EXCEPT !.items =
                       SelectSeq(@, LAMBDA item : item.product_id # product_id)]]
             ELSE [ok |-> TRUE, err |-> "",
                   cart |-> [cart EXCEPT !.items[i].quantity = quantity]]
        ELSE IF quantity > 0
             THEN [ok |-> TRUE, err |-> "",
                   cart |-> [cart EXCEPT !.items =
                       Append(@, [product_id |-> product_id, quantity |-> quantity])]]
             ELSE [ok |-> FALSE, err |-> "MissingItem", cart |-> cart]

(***************************************************************************)
(* Option<T> is a sequence: << >> for None, <<v>> for Some(v).             *)
(***************************************************************************)
None == << >>
Some(v) == <<v>>
is_some(o) == o # << >>
unwrap(o) == o[1]

(***************************************************************************)
(* In-memory stores (src/datastore/src/lib.rs).  Each operator is the      *)
(* effect of one port method on the store it is given.                     *)
(***************************************************************************)
get_by_id(emps, employee_id) ==
    LET hits == { i \in DOMAIN emps : emps[i].id = employee_id }
    IN  IF hits = {} THEN None ELSE Some(emps[Min(hits)])

find_product(product_id) ==
    LET hits == { i \in DOMAIN Products : Products[i].id = product_id }
    IN  IF hits = {} THEN None ELSE Some(Products[Min(hits)])

get_cart(store, employee_id) == store[employee_id]

save_cart(store, cart) == [store EXCEPT ![cart.employee_id] = Some(cart)]

\* Faulty variant: the removal is lost.
clear_cart_removing_nothing(store, employee_id) == store

clear_cart(store, employee_id) == [store EXCEPT ![employee_id] = None]

\* create_invoice: the record built from the draft, the grown Vec, the next id.
\* Faulty variant: an invoice already stored for the same employee and lines is handed
\* back instead of a new one.
create_invoice_deduplicating(store, next_id, draft) ==
    LET same == { i \in DOMAIN store : /\ store[i].employee_id = draft.employee_id
                                       /\ store[i].items = draft.items }
        invoice == [id |-> next_id,
                    employee_id |-> draft.employee_id,
                    items |-> draft.items,
                    subtotal |-> draft.subtotal,
                    fee |-> draft.fee,
                    tax |-> draft.tax,
                    total |-> draft.total]
    IN  IF same # {}
        THEN [record |-> store[Min(same)], store |-> store, next_id |-> next_id]
        ELSE [record |-> invoice, store |-> Append(store, invoice),
              next_id |-> next_id + 1]

create_invoice(store, next_id, draft) ==
    LET invoice == [id |-> next_id,
                    employee_id |-> draft.employee_id,
                    items |-> draft.items,
                    subtotal |-> draft.subtotal,
                    fee |-> draft.fee,
                    tax |-> draft.tax,
                    total |-> draft.total]
    IN  [record |-> invoice, store |-> Append(store, invoice), next_id |-> next_id + 1]

\* Faulty variant: next_id is not advanced.
create_quote_reusing_id(store, next_id, draft) ==
    LET record == [id |-> next_id,
                   employee_id |-> draft.employee_id,
                   items |-> draft.items,
                   subtotal |-> draft.subtotal,
                   fee |-> draft.fee,
                   tax |-> draft.tax,
                   total |-> draft.total,
                   submitted_at |-> draft.submitted_at]
    IN  [record |-> record, store |-> Append(store, record), next_id |-> next_id]

\* Faulty variant: the employee's latest quote is replaced by the new one.
create_quote_replacing_latest(store, next_id, draft) ==
    LET record == [id |-> next_id,
                   employee_id |-> draft.employee_id,
                   items |-> draft.items,
                   subtotal |-> draft.subtotal,
                   fee |-> draft.fee,
                   tax |-> draft.tax,
                   total |-> draft.total,
                   submitted_at |-> draft.submitted_at]
        mine == { i \in DOMAIN store : store[i].employee_id = draft.employee_id }
    IN  IF mine = {}
        THEN [record |-> record, store |-> Append(store, record), next_id |-> next_id + 1]
        ELSE [record |-> record,
              store |-> [store EXCEPT ![CHOOSE i \in mine : \A j \in mine : j <= i] = record],
              next_id |-> next_id + 1]

create_quote(store, next_id, draft) ==
    LET record == [id |-> next_id,
                   employee_id |-> draft.employee_id,
                   items |-> draft.items,
                   subtotal |-> draft.subtotal,
                   fee |-> draft.fee,
                   tax |-> draft.tax,
                   total |-> draft.total,
                   submitted_at |-> draft.submitted_at]
    IN  [record |-> record, store |-> Append(store, record), next_id |-> next_id + 1]

send_invoice(outbox, to, invoice) ==
    Append(outbox, [to |-> to, invoice_id |-> invoice.id])

(***************************************************************************)
(* build_cart_lines (src/core/use_cases/src/lib.rs).  The catalog is read  *)
(* once per cart line, in cart order; failAt = k > 0 makes the k-th        *)
(* find_product call return Err, failAt = 0 makes none fail.               *)
(***************************************************************************)
build_cart_line(product, quantity, line_total) ==
    [product_id |-> product.id,
     name |-> product.name,
     category |-> product.category,
     unit_price |-> [cents |-> product.unit_price],
     quantity |-> quantity,
     line_total |-> line_total]

RECURSIVE build_cart_lines_from(_, _, _, _, _)
build_cart_lines_from(cart_items, i, failAt, items, subtotal) ==
    IF i > Len(cart_items)
    THEN [kind |-> "Ok", items |-> items, subtotal |-> subtotal, lookups |-> i - 1]
    ELSE IF failAt = i
    THEN [kind |-> "Repo", items |-> << >>, subtotal |-> Money_zero, lookups |-> i]
    ELSE LET found == find_product(cart_items[i].product_id)
         IN  IF ~is_some(found)
             THEN [kind |-> "NotFound", items |-> << >>, subtotal |-> Money_zero,
                   lookups |-> i]
             ELSE LET product == unwrap(found)
                      line_total == Money_multiply([cents |-> product.unit_price],
                                                   cart_items[i].quantity)
                  IN  build_cart_lines_from(
                          cart_items, i + 1, failAt,
                          Append(items,
                                 build_cart_line(product, cart_items[i].quantity,
                                                 line_total)),
                          Money_add(subtotal, line_total))

\* Faulty variant: a cart line whose product is gone is skipped.
RECURSIVE build_cart_lines_skipping_from(_, _, _, _, _)
build_cart_lines_skipping_from(cart_items, i, failAt, items, subtotal) ==
    IF i > Len(cart_items)
    THEN [kind |-> "Ok", items |-> items, subtotal |-> subtotal, lookups |-> i - 1]
    ELSE IF failAt = i
    THEN [kind |-> "Repo", items |-> << >>, subtotal |-> Money_zero, lookups |-> i]
    ELSE LET found == find_product(cart_items[i].product_id)
         IN  IF ~is_some(found)
             THEN build_cart_lines_skipping_from(cart_items, i + 1, failAt,
                                                 items, subtotal)
             ELSE LET product == unwrap(found)
                      line_total == Money_multiply([cents |-> product.unit_price],
                                                   cart_items[i].quantity)
                  IN  build_cart_lines_skipping_from(
                          cart_items, i + 1, failAt,
                          Append(items,
                                 build_cart_line(product, cart_items[i].quantity,
                                                 line_total)),
                          Money_add(subtotal, line_total))

build_cart_lines_skipping_missing(cart, failAt) ==
    build_cart_lines_skipping_from(cart.items, 1, failAt, << >>, Money_zero)

build_cart_lines(cart, failAt) ==
    build_cart_lines_from(cart.items, 1, failAt, << >>, Money_zero)

\* fee / taxable / tax / total of GetQuote and ConfirmOrder (Variant A pricing).
price_order(policy, built) ==
    LET fee == [cents |-> policy.flat_fee]
        taxable == Money_add(built.subtotal, fee)
        tax == calculate_tax(policy, taxable)
        total == Money_add(taxable, tax)
    IN  [items |-> built.items, subtotal |-> built.subtotal,
         fee |-> fee, tax |-> tax, total |-> total]

\* QuoteLine / InvoiceLine copied field by field from a CartLine.
copy_line(item) ==
    [product_id |-> item.product_id,
     name |-> item.name,
     category |-> item.category,
     unit_price |-> item.unit_price,
     quantity |-> item.quantity,
     line_total |-> item.line_total]

copy_lines(items) == [i \in DOMAIN items |-> copy_line(items[i])]

(***************************************************************************)
(* Variant B: the ordering module (src/core/*/src/ordering*, adapters in   *)
(* src/apps/web/src/ordering).  An f64 is modelled by the exact rational   *)
(* it stands for, kept in lowest terms; floating-point rounding is not     *)
(* modelled.                                                               *)
(***************************************************************************)
RECURSIVE GCD(_, _)
GCD(a, b) == IF b = 0 THEN a ELSE GCD(b, a % b)

Rat(n, d) == IF n = 0 THEN [num |-> 0, den |-> 1]
             ELSE [num |-> n \div GCD(n, d), den |-> d \div GCD(n, d)]

f64_from_u32(n) == Rat(n, 1)
f64_mul(a, b) == Rat(a.num * b.num, a.den * b.den)
f64_add(a, b) == Rat(a.num * b.den + b.num * a.den, a.den * b.den)
f64_zero == Rat(0, 1)

RECURSIVE f64_sum(_)
f64_sum(s) == IF s = << >> THEN f64_zero ELSE f64_add(Head(s), f64_sum(Tail(s)))

DEFAULT_SCHOOL_NAME == "P.S. 082 - The Hammond School"
DEFAULT_SCHOOL_CODE == "28Q082"
DEFAULT_TAX_RATE == Rat(8875, 100000)
DEFAULT_SHIPPING_RATE == Rat(1, 100)
DEFAULT_TODAY == [month |-> 12, day |-> 22, year_two_digits |-> 25]

CodelessSchool == "P.S. 007"
UnlistedSchool == "Unlisted School"

Ann == "ann@schools.nyc.gov"
Bob == "bob@schools.nyc.gov"
Cat == "cat@schools.nyc.gov"
Dan == "dan@schools.nyc.gov"
OrdEmails == {Ann, Bob, Cat, Dan}
OrdShoppers == {Ann, Bob}

Water == "Poland Spring Water (48 ct/8 oz)"
Wipes == "Disinfecting Wipes (320 ct)"
Unstocked == "Unstocked Item"
Descriptions == {Water, Wipes, Unstocked}

\* OrderingState::new seeds the catalog; nothing changes it afterwards.
CatalogItems == (Water :> Rat(2000, 100)) @@ (Wipes :> Rat(1575, 100))

Employee(email, school_name, delivery_window) ==
    [email |-> email, school_name |-> school_name, delivery_window |-> delivery_window]

\* Ann signed up for the seeded school, Bob for a school stored without a
\* code, Cat for a school the repository does not hold; Dan never signed up.
SeedOrdEmployees ==
    [e \in OrdEmails |->
        CASE e = Ann -> Some(Employee(Ann, DEFAULT_SCHOOL_NAME, "9am-11am"))
          [] e = Bob -> Some(Employee(Bob, CodelessSchool, "1pm-3pm"))
          [] e = Cat -> Some(Employee(Cat, UnlistedSchool, "9am-11am"))
          [] OTHER -> None]

SchoolNames == {DEFAULT_SCHOOL_NAME, CodelessSchool, UnlistedSchool}

SeedSchools ==
    [n \in SchoolNames |->
        CASE n = DEFAULT_SCHOOL_NAME ->
                 Some([name |-> n, code |-> Some(DEFAULT_SCHOOL_CODE)])
          [] n = CodelessSchool -> Some([name |-> n, code |-> None])
          [] OTHER -> None]

\* The in-memory adapters (src/apps/web/src/ordering/adapters.rs).
ord_find_by_email(store, email) == store[email]
ord_find_by_name(store, name) == store[name]
price_for(description) ==
    IF description \in DOMAIN CatalogItems THEN Some(CatalogItems[description]) ELSE None
CartLineItem(description, quantity, price) ==
    [description |-> description, quantity |-> quantity, price |-> price]
ord_add_item(store, email, item) ==
    [store EXCEPT ![email] = Some(Append(IF is_some(@) THEN unwrap(@) ELSE << >>, item))]
items_for(store, email) == IF is_some(store[email]) THEN unwrap(store[email]) ELSE << >>
ord_clear(store, email) == [store EXCEPT ![email] = None]
ord_save(store, record) == Append(store, record)
send(outbox, email) == Append(outbox, email)
render_pdf(invoice) == "%PDF-1.4\n%NYC DOE Ordering\n"

\* format!("{:02}", n): decimal digits, zero-padded to at least two.
DigitChars == <<"0", "1", "2", "3", "4", "5", "6", "7", "8", "9">>

RECURSIVE Decimal(_)
Decimal(n) == IF n < 10 THEN <<DigitChars[n + 1]>>
              ELSE Append(Decimal(n \div 10), DigitChars[(n % 10) + 1])

\* Faulty variant: format!("{}", n), without padding.
Fmt_unpadded(n) == Decimal(n)

Fmt02(n) == IF n < 10 THEN <<"0">> \o Decimal(n) ELSE Decimal(n)

QuoteLineItem(item) ==
    [description |-> item.description, quantity |-> item.quantity, price |-> item.price,
     line_total |-> f64_mul(item.price, f64_from_u32(item.quantity))]

\* Faulty variant: shipping is charged on the subtotal with tax.
build_quote_shipping_on_taxed(school_code, date, delivery_window, cart_items, tax_rate, shipping_rate) ==
    LET line_items == [i \in DOMAIN cart_items |-> QuoteLineItem(cart_items[i])]
        subtotal == f64_sum([i \in DOMAIN line_items |-> line_items[i].line_total])
        tax == f64_mul(subtotal, tax_rate)
        shipping == f64_mul(f64_add(subtotal, tax), shipping_rate)
    IN  [number |-> <<school_code, "x">> \o Fmt02(date.month) \o Fmt02(date.day)
                        \o Fmt02(date.year_two_digits),
         line_items |-> line_items,
         subtotal |-> subtotal,
         tax |-> tax,
         shipping |-> shipping,
         total |-> f64_add(f64_add(subtotal, tax), shipping),
         delivery_window |-> delivery_window]

build_quote(school_code, date, delivery_window, cart_items, tax_rate, shipping_rate) ==
    LET line_items == [i \in DOMAIN cart_items |-> QuoteLineItem(cart_items[i])]
        subtotal == f64_sum([i \in DOMAIN line_items |-> line_items[i].line_total])
        tax == f64_mul(subtotal, tax_rate)
        shipping == f64_mul(subtotal, shipping_rate)
    IN  [number |-> <<school_code, "x">> \o Fmt02(date.month) \o Fmt02(date.day)
                        \o Fmt02(date.year_two_digits),
         line_items |-> line_items,
         subtotal |-> subtotal,
         tax |-> tax,
         shipping |-> shipping,
         total |-> f64_add(f64_add(subtotal, tax), shipping),
         delivery_window |-> delivery_window]

InvoiceLineItem(item) ==
    [description |-> item.description, quantity |-> item.quantity, price |-> item.price]

\* Faulty variant: the invoice is built without shipping.
build_invoice_without_shipping(quote, school_name) ==
    [quote_number |-> quote.number,
     line_items |-> [i \in DOMAIN quote.line_items |-> InvoiceLineItem(quote.line_items[i])],
     tax |-> Some(quote.tax),
     shipping |-> None,
     delivery_window |-> quote.delivery_window,
     school |-> school_name]

build_invoice(quote, school_name) ==
    [quote_number |-> quote.number,
     line_items |-> [i \in DOMAIN quote.line_items |-> InvoiceLineItem(quote.line_items[i])],
     tax |-> Some(quote.tax),
     shipping |-> Some(quote.shipping),
     delivery_window |-> quote.delivery_window,
     school |-> school_name]

\* Faulty variant: the body describes the last line of the invoice.
build_email_body_of_last_line(invoice) ==
    LET last == IF invoice.line_items = << >>
                THEN [description |-> "", quantity |-> 0, price |-> f64_zero]
                ELSE invoice.line_items[Len(invoice.line_items)]
    IN  [school |-> invoice.school,
         delivery_window |-> invoice.delivery_window,
         line_item_description |-> last.description,
         line_item_quantity |-> last.quantity,
         line_item_price |-> last.price]

build_email_body(invoice) ==
    LET first == IF invoice.line_items = << >>
                 THEN [description |-> "", quantity |-> 0, price |-> f64_zero]
                 ELSE Head(invoice.line_items)
    IN  [school |-> invoice.school,
         delivery_window |-> invoice.delivery_window,
         line_item_description |-> first.description,
         line_item_quantity |-> first.quantity,
         line_item_price |-> first.price]

EmailMessage(to, invoice, pdf_bytes) ==
    [to |-> to,
     body |-> build_email_body(invoice),
     attachments |-> <<[content_type |-> "application/pdf",
                        file_name |-> Some("invoice.pdf"),
                        bytes |-> pdf_bytes]>>]

\* The ordering stores once three employees have signed up: no cart, no
\* quote, no invoice, nothing sent.
OrderingStores ==
    /\ ord_employees = SeedOrdEmployees
    /\ ord_schools = SeedSchools
    /\ ord_carts = [e \in OrdEmails |-> None]
    /\ ord_quotes = << >>
    /\ ord_invoices = << >>
    /\ ord_outbox = << >>

(***************************************************************************)
(* Invocation slots.                                                       *)
(***************************************************************************)
IdleFrame ==
    [op |-> "none", employee_id |-> 0, product_id |-> 0, quantity |-> 0,
     employee |-> None, cart |-> None, priced |-> None, invoice |-> None]

NoResult == [kind |-> "none", out |-> None]

Snapshot == [carts |-> carts, invoices |-> invoices, quotes |-> quotes, sent |-> sent]

\* execute() is entered: a fresh frame, an empty call log, the stores remembered.
Enter(p, op, employee_id, product_id, quantity) ==
    /\ pc[p] = "idle"
    /\ calls < MaxCalls
    /\ calls' = calls + 1
    /\ frame' = [frame EXCEPT ![p] = [IdleFrame EXCEPT !.op = op,
                                                       !.employee_id = employee_id,
                                                       !.product_id = product_id,
                                                       !.quantity = quantity]]
    /\ log' = [log EXCEPT ![p] = << >>]
    /\ pre' = [pre EXCEPT ![p] = Snapshot]

\* execute() returns: Ok(out) or Err(kind).
Return(p, kind, out) ==
    /\ pc' = [pc EXCEPT ![p] = "idle"]
    /\ result' = [result EXCEPT ![p] = [kind |-> kind, out |-> out]]

Called(p, port, ok) ==
    log' = [log EXCEPT ![p] = Append(@, [port |-> port, ok |-> ok])]

\* The find_product calls of one build_cart_lines run: all Ok but a failed last one.
RECURSIVE Lookups(_, _)
Lookups(n, last_ok) ==
    IF n = 0 THEN << >>
    ELSE Append(Lookups(n - 1, TRUE), [port |-> "find_product", ok |-> last_ok])

CalledLookups(p, built) ==
    log' = [log EXCEPT ![p] = @ \o Lookups(built.lookups, built.kind # "Repo")]

(***************************************************************************)
(* AddItemToCartInteractor::execute (Variant A).                           *)
(***************************************************************************)
\* Faulty variant: the quantity is not validated before the catalog lookup.
AddItemToCart_execute_without_quantity_check(p) ==
    \E e \in Shoppers, prod \in ProductIds, q \in Quantities :
        /\ Enter(p, "AddItemToCart", e, prod, q)
        /\ pc' = [pc EXCEPT ![p] = "add_find_product"]
        /\ result' = [result EXCEPT ![p] = NoResult]
        /\ UNCHANGED <<stores, pricing, ordering>>

AddItemToCart_execute(p) ==
    \E e \in Shoppers, prod \in ProductIds, q \in Quantities :
        /\ Enter(p, "AddItemToCart", e, prod, q)
        /\ IF q = 0
           THEN Return(p, "Validation", None)
           ELSE /\ pc' = [pc EXCEPT ![p] = "add_find_product"]
                /\ result' = [result EXCEPT ![p] = NoResult]
        /\ UNCHANGED <<stores, pricing, ordering>>

AddItemToCart_find_product(p) ==
    /\ pc[p] = "add_find_product"
    /\ \E ok \in BOOLEAN :
        /\ Called(p, "find_product", ok)
        /\ IF ~ok THEN Return(p, "Repo", None)
           ELSE IF ~is_some(find_product(frame[p].product_id))
           THEN Return(p, "NotFound", None)
           ELSE /\ pc' = [pc EXCEPT ![p] = "add_get_cart"]
                /\ UNCHANGED result
    /\ UNCHANGED <<stores, frame, pre, calls, pricing, ordering>>

AddItemToCart_get_cart(p) ==
    /\ pc[p] = "add_get_cart"
    /\ \E ok \in BOOLEAN :
        /\ Called(p, "get_cart", ok)
        /\ IF ~ok
           THEN Return(p, "Repo", None) /\ UNCHANGED frame
           ELSE LET got == get_cart(carts, frame[p].employee_id)
                    cart == IF is_some(got) THEN unwrap(got)
                            ELSE Cart_empty(frame[p].employee_id)
                    product == unwrap(find_product(frame[p].product_id))
                    updated == add_item(cart, product.id, frame[p].quantity)
                IN  IF ~updated.ok
                    THEN Return(p, "Validation", None) /\ UNCHANGED frame
                    ELSE /\ frame' = [frame EXCEPT ![p].cart = Some(updated.cart)]
                         /\ pc' = [pc EXCEPT ![p] = "add_save_cart"]
                         /\ UNCHANGED result
    /\ UNCHANGED <<stores, pre, calls, pricing, ordering>>

AddItemToCart_save_cart(p) ==
    /\ pc[p] = "add_save_cart"
    /\ \E ok \in BOOLEAN :
        /\ Called(p, "save_cart", ok)
        /\ IF ~ok
           THEN Return(p, "Repo", None) /\ UNCHANGED carts
           ELSE /\ carts' = save_cart(carts, unwrap(frame[p].cart))
                /\ pc' = [pc EXCEPT ![p] = "add_build_cart_lines"]
                /\ UNCHANGED result
    /\ UNCHANGED <<accounts, employees, invoices, invoice_next_id, quotes, quote_next_id, sent,
                   frame, pre, calls, pricing, ordering>>

\* The trailing build_cart_lines of the cart interactors: the CartOutput.
CartOutput_build_cart_lines(p) ==
    \E failAt \in 0 .. Len(unwrap(frame[p].cart).items) :
        LET built == build_cart_lines(unwrap(frame[p].cart), failAt)
        IN  /\ CalledLookups(p, built)
            /\ IF built.kind = "Ok"
               THEN Return(p, "Ok", Some([items |-> built.items,
                                          subtotal |-> built.subtotal]))
               ELSE Return(p, built.kind, None)

AddItemToCart_build_cart_lines(p) ==
    /\ pc[p] = "add_build_cart_lines"
    /\ CartOutput_build_cart_lines(p)
    /\ UNCHANGED <<stores, frame, pre, calls, pricing, ordering>>

(***************************************************************************)
(* UpdateCartInteractor::execute.                                          *)
(***************************************************************************)
UpdateCart_execute(p) ==
    \E e \in Shoppers, prod \in ProductIds, q \in Quantities :
        /\ Enter(p, "UpdateCart", e, prod, q)
        /\ pc' = [pc EXCEPT ![p] = "upd_get_cart"]
        /\ result' = [result EXCEPT ![p] = NoResult]
        /\ UNCHANGED <<stores, pricing, ordering>>

UpdateCart_get_cart(p) ==
    /\ pc[p] = "upd_get_cart"
    /\ \E ok \in BOOLEAN :
        /\ Called(p, "get_cart", ok)
        /\ IF ~ok
           THEN Return(p, "Repo", None) /\ UNCHANGED frame
           ELSE LET got == get_cart(carts, frame[p].employee_id)
                    cart == IF is_some(got) THEN unwrap(got)
                            ELSE Cart_empty(frame[p].employee_id)
                    updated == set_quantity(cart, frame[p].product_id, frame[p].quantity)
                IN  IF ~updated.ok
                    THEN Return(p, "Validation", None) /\ UNCHANGED frame
                    ELSE /\ frame' = [frame EXCEPT ![p].cart = Some(updated.cart)]
                         /\ pc' = [pc EXCEPT ![p] = "upd_save_cart"]
                         /\ UNCHANGED result
    /\ UNCHANGED <<stores, pre, calls, pricing, ordering>>

UpdateCart_save_cart(p) ==
    /\ pc[p] = "upd_save_cart"
    /\ \E ok \in BOOLEAN :
        /\ Called(p, "save_cart", ok)
        /\ IF ~ok
           THEN Return(p, "Repo", None) /\ UNCHANGED carts
           ELSE /\ carts' = save_cart(carts, unwrap(frame[p].cart))
                /\ pc' = [pc EXCEPT ![p] = "upd_build_cart_lines"]
                /\ UNCHANGED result
    /\ UNCHANGED <<accounts, employees, invoices, invoice_next_id, quotes, quote_next_id, sent,
                   frame, pre, calls, pricing, ordering>>

UpdateCart_build_cart_lines(p) ==
    /\ pc[p] = "upd_build_cart_lines"
    /\ CartOutput_build_cart_lines(p)
    /\ UNCHANGED <<stores, frame, pre, calls, pricing, ordering>>

(***************************************************************************)
(* GetQuoteInteractor::execute.                                            *)
(***************************************************************************)
GetQuote_execute(p) ==
    \E e \in EmployeeIds :
        /\ Enter(p, "GetQuote", e, 0, 0)
        /\ pc' = [pc EXCEPT ![p] = "gq_get_cart"]
        /\ result' = [result EXCEPT ![p] = NoResult]
        /\ UNCHANGED <<stores, pricing, ordering>>

\* get_cart(..).await?.unwrap_or_else(Cart::empty), then the is_empty() check.
LoadCart_get_cart(p, next_pc) ==
    \E ok \in BOOLEAN :
        /\ Called(p, "get_cart", ok)
        /\ IF ~ok
           THEN Return(p, "Repo", None) /\ UNCHANGED frame
           ELSE LET got == get_cart(carts, frame[p].employee_id)
                    cart == IF is_some(got) THEN unwrap(got)
                            ELSE Cart_empty(frame[p].employee_id)
                IN  IF is_empty(cart)
                    THEN Return(p, "EmptyCart", None) /\ UNCHANGED frame
                    ELSE /\ frame' = [frame EXCEPT ![p].cart = Some(cart)]
                         /\ pc' = [pc EXCEPT ![p] = next_pc]
                         /\ UNCHANGED result

\* build_cart_lines(..).await?, then fee, taxable, tax and total.
PriceCart_build_cart_lines(p, next_pc) ==
    \E failAt \in 0 .. Len(unwrap(frame[p].cart).items) :
        LET built == build_cart_lines(unwrap(frame[p].cart), failAt)
        IN  /\ CalledLookups(p, built)
            /\ IF built.kind # "Ok"
               THEN Return(p, built.kind, None) /\ UNCHANGED frame
               ELSE /\ frame' = [frame EXCEPT ![p].priced =
                                    Some(price_order(pricing, built))]
                    /\ pc' = [pc EXCEPT ![p] = next_pc]
                    /\ UNCHANGED result

GetQuote_get_cart(p) ==
    /\ pc[p] = "gq_get_cart"
    /\ LoadCart_get_cart(p, "gq_build_cart_lines")
    /\ UNCHANGED <<stores, pre, calls, pricing, ordering>>

GetQuote_build_cart_lines(p) ==
    /\ pc[p] = "gq_build_cart_lines"
    /\ PriceCart_build_cart_lines(p, "gq_create_quote")
    /\ UNCHANGED <<stores, pre, calls, pricing, ordering>>

QuoteDraft(cart, priced, submitted_at) ==
    [employee_id |-> cart.employee_id,
     items |-> copy_lines(priced.items),
     subtotal |-> priced.subtotal,
     fee |-> priced.fee,
     tax |-> priced.tax,
     total |-> priced.total,
     submitted_at |-> submitted_at]

GetQuote_create_quote(p) ==
    /\ pc[p] = "gq_create_quote"
    /\ \E ok \in BOOLEAN, now \in Timestamps :
        /\ Called(p, "create_quote", ok)
        /\ IF ~ok
           THEN Return(p, "Repo", None) /\ UNCHANGED <<quotes, quote_next_id>>
           ELSE LET priced == unwrap(frame[p].priced)
                    made == create_quote(quotes, quote_next_id,
                                         QuoteDraft(unwrap(frame[p].cart), priced, now))
                IN  /\ quotes' = made.store
                    /\ quote_next_id' = made.next_id
                    /\ Return(p, "Ok", Some(priced))
    /\ UNCHANGED <<accounts, employees, carts, invoices, invoice_next_id, sent,
                   frame, pre, calls, pricing, ordering>>

(***************************************************************************)
(* ConfirmOrderInteractor::execute.                                        *)
(***************************************************************************)
ConfirmOrder_execute(p) ==
    \E e \in EmployeeIds :
        /\ Enter(p, "ConfirmOrder", e, 0, 0)
        /\ pc' = [pc EXCEPT ![p] = "co_get_by_id"]
        /\ result' = [result EXCEPT ![p] = NoResult]
        /\ UNCHANGED <<stores, pricing, ordering>>

ConfirmOrder_get_by_id(p) ==
    /\ pc[p] = "co_get_by_id"
    /\ \E ok \in BOOLEAN :
        /\ Called(p, "get_by_id", ok)
        /\ IF ~ok
           THEN Return(p, "Repo", None) /\ UNCHANGED frame
           ELSE LET found == get_by_id(employees, frame[p].employee_id)
                IN  IF ~is_some(found)
                    THEN Return(p, "NotFound", None) /\ UNCHANGED frame
                    ELSE /\ frame' = [frame EXCEPT ![p].employee = found]
                         /\ pc' = [pc EXCEPT ![p] = "co_get_cart"]
                         /\ UNCHANGED result
    /\ UNCHANGED <<stores, pre, calls, pricing, ordering>>

ConfirmOrder_get_cart(p) ==
    /\ pc[p] = "co_get_cart"
    /\ LoadCart_get_cart(p, "co_build_cart_lines")
    /\ UNCHANGED <<stores, pre, calls, pricing, ordering>>

ConfirmOrder_build_cart_lines(p) ==
    /\ pc[p] = "co_build_cart_lines"
    /\ PriceCart_build_cart_lines(p, "co_create_invoice")
    /\ UNCHANGED <<stores, pre, calls, pricing, ordering>>

InvoiceDraft(employee, priced) ==
    [employee_id |-> employee.id,
     items |-> copy_lines(priced.items),
     subtotal |-> priced.subtotal,
     fee |-> priced.fee,
     tax |-> priced.tax,
     total |-> priced.total]

ConfirmOrder_create_invoice(p) ==
    /\ pc[p] = "co_create_invoice"
    /\ \E ok \in BOOLEAN :
        /\ Called(p, "create_invoice", ok)
        /\ IF ~ok
           THEN /\ Return(p, "Repo", None)
                /\ UNCHANGED <<invoices, invoice_next_id, frame>>
           ELSE LET made == create_invoice(invoices, invoice_next_id,
                                InvoiceDraft(unwrap(frame[p].employee),
                                             unwrap(frame[p].priced)))
                IN  /\ invoices' = made.store
                    /\ invoice_next_id' = made.next_id
                    /\ frame' = [frame EXCEPT ![p].invoice = Some(made.record)]
                    /\ pc' = [pc EXCEPT ![p] = "co_send_invoice"]
                    /\ UNCHANGED result
    /\ UNCHANGED <<accounts, employees, carts, quotes, quote_next_id, sent, pre, calls, pricing, ordering>>

\* Faulty variant: the email error is swallowed and the confirmation goes on to clear.
ConfirmOrder_send_invoice_swallowing_error(p) ==
    /\ pc[p] = "co_send_invoice"
    /\ \E ok \in BOOLEAN :
        /\ Called(p, "send_invoice", ok)
        /\ IF ~ok
           THEN UNCHANGED sent
           ELSE sent' = send_invoice(sent, unwrap(frame[p].employee).email,
                                     unwrap(frame[p].invoice))
        /\ pc' = [pc EXCEPT ![p] = "co_clear_cart"]
        /\ UNCHANGED result
    /\ UNCHANGED <<accounts, employees, carts, invoices, invoice_next_id, quotes, quote_next_id,
                   frame, pre, calls, pricing, ordering>>

\* Faulty variant: the cart is cleared before the email outcome is looked at.
ConfirmOrder_send_invoice_clearing_first(p) ==
    /\ pc[p] = "co_send_invoice"
    /\ \E ok \in BOOLEAN :
        /\ Called(p, "send_invoice", ok)
        /\ carts' = clear_cart(carts, unwrap(frame[p].employee).id)
        /\ IF ~ok
           THEN Return(p, "Email", None) /\ UNCHANGED sent
           ELSE /\ sent' = send_invoice(sent, unwrap(frame[p].employee).email,
                                        unwrap(frame[p].invoice))
                /\ pc' = [pc EXCEPT ![p] = "co_clear_cart"]
                /\ UNCHANGED result
    /\ UNCHANGED <<accounts, employees, invoices, invoice_next_id, quotes, quote_next_id,
                   frame, pre, calls, pricing, ordering>>

ConfirmOrder_send_invoice(p) ==
    /\ pc[p] = "co_send_invoice"
    /\ \E ok \in BOOLEAN :
        /\ Called(p, "send_invoice", ok)
        /\ IF ~ok
           THEN Return(p, "Email", None) /\ UNCHANGED sent
           ELSE /\ sent' = send_invoice(sent, unwrap(frame[p].employee).email,
                                        unwrap(frame[p].invoice))
                /\ pc' = [pc EXCEPT ![p] = "co_clear_cart"]
                /\ UNCHANGED result
    /\ UNCHANGED <<accounts, employees, carts, invoices, invoice_next_id, quotes, quote_next_id,
                   frame, pre, calls, pricing, ordering>>

\* Faulty variant: the outcome of clear_cart is dropped and Ok is returned.
ConfirmOrder_clear_cart_ignoring_error(p) ==
    /\ pc[p] = "co_clear_cart"
    /\ \E ok \in BOOLEAN :
        /\ Called(p, "clear_cart", ok)
        /\ IF ~ok
           THEN UNCHANGED carts
           ELSE carts' = clear_cart(carts, unwrap(frame[p].employee).id)
        /\ Return(p, "Ok",
                  Some([invoice_id |-> unwrap(frame[p].invoice).id,
                        total |-> unwrap(frame[p].priced).total,
                        email |-> unwrap(frame[p].employee).email]))
    /\ UNCHANGED <<accounts, employees, invoices, invoice_next_id, quotes, quote_next_id, sent,
                   frame, pre, calls, pricing, ordering>>

ConfirmOrder_clear_cart(p) ==
    /\ pc[p] = "co_clear_cart"
    /\ \E ok \in BOOLEAN :
        /\ Called(p, "clear_cart", ok)
        /\ IF ~ok
           THEN Return(p, "Repo", None) /\ UNCHANGED carts
           ELSE /\ carts' = clear_cart(carts, unwrap(frame[p].employee).id)
                /\ Return(p, "Ok",
                          Some([invoice_id |-> unwrap(frame[p].invoice).id,
                                total |-> unwrap(frame[p].priced).total,
                                email |-> unwrap(frame[p].employee).email]))
    /\ UNCHANGED <<accounts, employees, invoices, invoice_next_id, quotes, quote_next_id, sent,
                   frame, pre, calls, pricing, ordering>>

(***************************************************************************)
(* The system: the stores as constructed, no request in progress.          *)
(***************************************************************************)
Init ==
    /\ employees = SeedEmployees
    /\ AccountStores
    /\ carts = [e \in EmployeeIds |-> None]
    /\ invoices = << >>
    /\ invoice_next_id = 1
    /\ quotes = << >>
    /\ quote_next_id = 1
    /\ sent = << >>
    /\ pc = [p \in Procs |-> "idle"]
    /\ frame = [p \in Procs |-> IdleFrame]
    /\ result = [p \in Procs |-> NoResult]
    /\ log = [p \in Procs |-> << >>]
    /\ pre = [p \in Procs |-> Snapshot]
    /\ calls = 0
    /\ pricing = DefaultPolicy
    /\ OrderingStores

Next ==
    \E p \in Procs :
        \/ AddItemToCart_execute(p)
        \/ AddItemToCart_find_product(p)
        \/ AddItemToCart_get_cart(p)
        \/ AddItemToCart_save_cart(p)
        \/ AddItemToCart_build_cart_lines(p)
        \/ UpdateCart_execute(p)
        \/ UpdateCart_get_cart(p)
        \/ UpdateCart_save_cart(p)
        \/ UpdateCart_build_cart_lines(p)
        \/ GetQuote_execute(p)
        \/ GetQuote_get_cart(p)
        \/ GetQuote_build_cart_lines(p)
        \/ GetQuote_create_quote(p)
        \/ ConfirmOrder_execute(p)
        \/ ConfirmOrder_get_by_id(p)
        \/ ConfirmOrder_get_cart(p)
        \/ ConfirmOrder_build_cart_lines(p)
        \/ ConfirmOrder_create_invoice(p)
        \/ ConfirmOrder_send_invoice(p)
        \/ ConfirmOrder_clear_cart(p)

Spec == Init /\ [][Next]_vars

(***************************************************************************)
(* Vocabulary of the properties.                                           *)
(***************************************************************************)
\* execute() of interactor op has returned in slot p.
Returned(p, op) == pc[p] = "idle" /\ frame[p].op = op /\ result[p].kind # "none"

\* Positions of the calls of a port in the call log of slot p.
Pos(p, port) == { i \in DOMAIN log[p] : log[p][i].port = port }

PortFailed(p) == \E i \in DOMAIN log[p] : ~log[p][i].ok

LinesOf(stored) == IF stored = None THEN << >> ELSE unwrap(stored).items

\* The cart of the employee slot p serves, as stored when execute() began.
CartBefore(p) == LinesOf(pre[p].carts[frame[p].employee_id])

Last(s) == s[Len(s)]

GrewByOne(now, before) == Len(now) = Len(before) + 1 /\ SubSeq(now, 1, Len(before)) = before

EmailOf(employee_id) ==
    (CHOOSE e \in Range(SeedEmployees) : e.id = employee_id).email

IsRegistered(employee_id) == \E e \in Range(SeedEmployees) : e.id = employee_id

InCatalog(product_id) == \E pr \in Range(Products) : pr.id = product_id

CatalogPrice(product_id) ==
    (CHOOSE pr \in Range(Products) : pr.id = product_id).unit_price

AllInCatalog(lines) == \A i \in DOMAIN lines : InCatalog(lines[i].product_id)

\* C1: in every ConfirmOrder execution the port calls come in the order
\* create_invoice, send_invoice, clear_cart: clear_cart is called only after
\* both earlier calls returned Ok, and a cart changed by a confirmation goes
\* with an invoice persisted and an email sent for that invoice by that call.
C1_PersistNotifyClear ==
    \A p \in Procs :
        frame[p].op = "ConfirmOrder" =>
            /\ \A i \in Pos(p, "clear_cart") :
                   \E j \in Pos(p, "create_invoice"), k \in Pos(p, "send_invoice") :
                       j < k /\ k < i /\ log[p][j].ok /\ log[p][k].ok
            /\ \A k \in Pos(p, "send_invoice") :
                   \E j \in Pos(p, "create_invoice") : j < k /\ log[p][j].ok
            /\ carts # pre[p].carts =>
                   /\ GrewByOne(invoices, pre[p].invoices)
                   /\ GrewByOne(sent, pre[p].sent)
                   /\ Last(sent).invoice_id = Last(invoices).id

C1_Witness ==
    \E p \in Procs :
        /\ Returned(p, "ConfirmOrder")
        /\ Pos(p, "clear_cart") # {}
        /\ carts # pre[p].carts

\* C2: when send_invoice fails, ConfirmOrder returns an error, the invoice
\* that call created is still the last record of the invoice store, and
\* every stored cart is what it was before the call.
C2_EmailFailureKeepsInvoiceAndCart ==
    \A p \in Procs :
        ( /\ Returned(p, "ConfirmOrder")
          /\ \E i \in Pos(p, "send_invoice") : ~log[p][i].ok ) =>
            /\ result[p].kind = "Email"
            /\ GrewByOne(invoices, pre[p].invoices)
            /\ Last(invoices) = unwrap(frame[p].invoice)
            /\ Last(invoices).employee_id = frame[p].employee_id
            /\ carts = pre[p].carts
            /\ CartBefore(p) # << >>
            /\ sent = pre[p].sent

C2_Witness ==
    \E p \in Procs :
        /\ Returned(p, "ConfirmOrder")
        /\ \E i \in Pos(p, "send_invoice") : ~log[p][i].ok
        /\ result[p].kind = "Email"

\* C3: a successful ConfirmOrder for an employee with a non-empty cart has
\* added exactly one invoice, has sent exactly one email, to that employee's
\* address and for that invoice, and has left the employee without cart lines.
C3_ConfirmSuccess ==
    \A p \in Procs :
        (Returned(p, "ConfirmOrder") /\ result[p].kind = "Ok") =>
            /\ CartBefore(p) # << >>
            /\ GrewByOne(invoices, pre[p].invoices)
            /\ Last(invoices).employee_id = frame[p].employee_id
            /\ GrewByOne(sent, pre[p].sent)
            /\ Last(sent) = [to |-> EmailOf(frame[p].employee_id),
                             invoice_id |-> Last(invoices).id]
            /\ unwrap(result[p].out).invoice_id = Last(invoices).id
            /\ unwrap(result[p].out).email = EmailOf(frame[p].employee_id)
            /\ LinesOf(carts[frame[p].employee_id]) = << >>
            /\ \A e \in EmployeeIds \ {frame[p].employee_id} : carts[e] = pre[p].carts[e]

C3_Witness ==
    \E p \in Procs :
        /\ Returned(p, "ConfirmOrder")
        /\ result[p].kind = "Ok"
        /\ Len(CartBefore(p)) >= 2

\* C4: GetQuote and ConfirmOrder for an employee whose cart is absent or has
\* no lines create no quote and no invoice, send no email and leave every
\* stored cart as it was; when no port call fails (and, for ConfirmOrder, the
\* employee exists) the error returned is EmptyCart.
C4_EmptyCartRejected ==
    \A p \in Procs :
        ( /\ Returned(p, "GetQuote") \/ Returned(p, "ConfirmOrder")
          /\ CartBefore(p) = << >> ) =>
            /\ result[p].kind # "Ok"
            /\ quotes = pre[p].quotes
            /\ invoices = pre[p].invoices
            /\ sent = pre[p].sent
            /\ carts = pre[p].carts
            /\ LinesOf(carts[frame[p].employee_id]) = << >>
            /\ ( /\ ~PortFailed(p)
                 /\ frame[p].op = "ConfirmOrder" => IsRegistered(frame[p].employee_id) )
               => result[p].kind = "EmptyCart"

\* ConfirmOrder has met a stored cart whose lines were all removed.
C4_Witness ==
    \E p \in Procs :
        /\ Returned(p, "ConfirmOrder")
        /\ result[p].kind = "EmptyCart"
        /\ pre[p].carts[frame[p].employee_id] # None

\* C7: a successful GetQuote leaves every stored cart unchanged and appends
\* exactly one quote record, whose identity no stored record has; every
\* earlier quote of the same employee for the same cart lines has the same
\* items, subtotal, fee, tax and total as the new one.
SameLines(record, lines) ==
    /\ Len(record.items) = Len(lines)
    /\ \A i \in DOMAIN lines :
           /\ record.items[i].product_id = lines[i].product_id
           /\ record.items[i].quantity = lines[i].quantity

C7_QuoteRepeatable ==
    /\ \A i, j \in DOMAIN quotes : i # j => quotes[i].id # quotes[j].id
    /\ \A p \in Procs :
        (Returned(p, "GetQuote") /\ result[p].kind = "Ok") =>
            /\ carts = pre[p].carts
            /\ GrewByOne(quotes, pre[p].quotes)
            /\ Last(quotes).employee_id = frame[p].employee_id
            /\ SameLines(Last(quotes), CartBefore(p))
            /\ \A i \in DOMAIN pre[p].quotes :
                   LET old == pre[p].quotes[i]
                   IN  /\ old.id # Last(quotes).id
                       /\ ( /\ old.employee_id = frame[p].employee_id
                            /\ SameLines(old, CartBefore(p)) )
                          => /\ old.items = Last(quotes).items
                             /\ old.subtotal = Last(quotes).subtotal
                             /\ old.fee = Last(quotes).fee
                             /\ old.tax = Last(quotes).tax
                             /\ old.total = Last(quotes).total

\* Two successive successful GetQuote calls on the same cart.
C7_Witness ==
    \E p \in Procs :
        /\ Returned(p, "GetQuote")
        /\ result[p].kind = "Ok"
        /\ Len(quotes) >= 2
        /\ quotes[Len(quotes) - 1].employee_id = frame[p].employee_id
        /\ SameLines(quotes[Len(quotes) - 1], CartBefore(p))

\* C8: when a line of the cart refers to a product the catalog does not
\* contain, GetQuote and ConfirmOrder create no quote and no invoice, send no
\* email and leave every stored cart unchanged; when no port call fails (and,
\* for ConfirmOrder, the employee exists) the error returned is NotFound.
C8_VanishedProductRejected ==
    \A p \in Procs :
        ( /\ Returned(p, "GetQuote") \/ Returned(p, "ConfirmOrder")
          /\ ~AllInCatalog(CartBefore(p)) ) =>
            /\ result[p].kind # "Ok"
            /\ quotes = pre[p].quotes
            /\ invoices = pre[p].invoices
            /\ sent = pre[p].sent
            /\ carts = pre[p].carts
            /\ ( /\ ~PortFailed(p)
                 /\ frame[p].op = "ConfirmOrder" => IsRegistered(frame[p].employee_id) )
               => result[p].kind = "NotFound"

\* A cart whose second line is the vanished product.
C8_Witness ==
    \E p \in Procs :
        /\ Returned(p, "ConfirmOrder")
        /\ result[p].kind = "NotFound"
        /\ Len(CartBefore(p)) >= 2
        /\ InCatalog(CartBefore(p)[1].product_id)

\* C9: ConfirmOrder does not de-duplicate.  When the last stored invoice is
\* the employee's, was never emailed (its confirmation failed at the
\* notification step) and has the lines the cart still holds, a ConfirmOrder
\* whose port calls all succeed stores a second invoice with another identity
\* and the same lines and amounts, and only this call clears the cart.
Emailed(outbox, invoice) == \E i \in DOMAIN outbox : outbox[i].invoice_id = invoice.id

Reconfirmed(p) ==
    /\ Returned(p, "ConfirmOrder")
    /\ ~PortFailed(p)
    /\ pre[p].invoices # << >>
    /\ Last(pre[p].invoices).employee_id = frame[p].employee_id
    /\ ~Emailed(pre[p].sent, Last(pre[p].invoices))
    /\ SameLines(Last(pre[p].invoices), CartBefore(p))

C9_ReconfirmDuplicatesInvoice ==
    \A p \in Procs :
        Reconfirmed(p) =>
            LET first == Last(pre[p].invoices)
                second == Last(invoices)
            IN  /\ result[p].kind = "Ok"
                /\ GrewByOne(invoices, pre[p].invoices)
                /\ second.id # first.id
                /\ second.employee_id = first.employee_id
                /\ second.items = first.items
                /\ second.total = first.total
                /\ CartBefore(p) # << >>
                /\ LinesOf(carts[frame[p].employee_id]) = << >>
                /\ Emailed(sent, second) /\ ~Emailed(sent, first)

C9_Witness == \E p \in Procs : Reconfirmed(p) /\ Len(invoices) = 2

\* C10: Variant A interactors are fail-fast.  A port call that returned Err
\* is the last port call of its execution; the execution has returned, with
\* the Email error when the call was send_invoice and the Repo error
\* otherwise.  In ConfirmOrder a failed create_invoice leaves the invoice
\* store, the outbox and the carts alone, and a failed clear_cart is returned
\* as an error with the invoice persisted, the email sent and the cart kept.
FailedAt(p, port) == \E i \in Pos(p, port) : ~log[p][i].ok

FlatFees == {0, DefaultFlatFee}
TaxRatesPpm == {0, 33333, DefaultTaxRatePpm}

PolicySamples == [flat_fee : FlatFees, tax_rate_ppm : TaxRatesPpm]

DistinctProducts(lines) ==
    \A i, j \in DOMAIN lines : i # j => lines[i].product_id # lines[j].product_id

\* The line lists a stored cart can hold: distinct products, quantities >= 1.
CartLineSamples ==
    { lines \in UNION { [1 .. n -> [product_id : ProductIds, quantity : 1 .. MaxLineQty]] :
                        n \in 0 .. Cardinality(ProductIds) } :
          DistinctProducts(lines) }

InitPricing ==
    /\ employees = SeedEmployees
    /\ AccountStores
    /\ \E lines \in CartLineSamples :
           carts = [e \in EmployeeIds |->
                        IF e = 1 THEN Some([employee_id |-> e, items |-> lines])
                        ELSE None]
    /\ invoices = << >>
    /\ invoice_next_id = 1
    /\ quotes = << >>
    /\ quote_next_id = 1
    /\ sent = << >>
    /\ pc = [p \in Procs |-> "idle"]
    /\ frame = [p \in Procs |-> IdleFrame]
    /\ result = [p \in Procs |-> NoResult]
    /\ log = [p \in Procs |-> << >>]
    /\ pre = [p \in Procs |-> Snapshot]
    /\ calls = MaxCalls - 1
    /\ pricing \in PolicySamples
    /\ OrderingStores

SpecPricing == InitPricing /\ [][Next]_vars

\* C6: for a non-empty cart of catalog products, any flat fee and any tax
\* rate, the quote GetQuote returns and the invoice ConfirmOrder builds have
\* subtotal = sum of unit_price * quantity over the cart lines,
\* tax = ((subtotal + fee) * tax_rate_ppm) div 100000 and
\* total = subtotal + fee + tax, and the stored record carries the values
\* the call returned.
ExpectedSubtotal(lines) ==
    SumSeq([i \in DOMAIN lines |-> CatalogPrice(lines[i].product_id) * lines[i].quantity])

ExpectedTax(lines) ==
    ((ExpectedSubtotal(lines) + pricing.flat_fee) * pricing.tax_rate_ppm) \div 100000

PricedAsSpecified(rec, lines) ==
    /\ SameLines(rec, lines)
    /\ \A i \in DOMAIN lines :
           /\ rec.items[i].unit_price.cents = CatalogPrice(lines[i].product_id)
           /\ rec.items[i].line_total.cents =
                  CatalogPrice(lines[i].product_id) * lines[i].quantity
    /\ rec.subtotal.cents = ExpectedSubtotal(lines)
    /\ rec.fee.cents = pricing.flat_fee
    /\ rec.tax.cents = ExpectedTax(lines)
    /\ rec.total.cents = ExpectedSubtotal(lines) + pricing.flat_fee + ExpectedTax(lines)

IdleFrameB ==
    [op |-> "none", email |-> "", description |-> "", quantity |-> 0,
     item |-> None, employee |-> None, school_code |-> None, date |-> None, cart_items |-> << >>,
     tax_rate |-> None, quote |-> None, invoice |-> None, pdf_bytes |-> None]

SnapshotB == [carts |-> ord_carts, quotes |-> ord_quotes, invoices |-> ord_invoices,
              outbox |-> ord_outbox]

EnterB(p, op, email, description, quantity) ==
    /\ pc[p] = "idle"
    /\ calls < MaxCalls
    /\ calls' = calls + 1
    /\ frame' = [frame EXCEPT ![p] = [IdleFrameB EXCEPT !.op = op,
                                                        !.email = email,
                                                        !.description = description,
                                                        !.quantity = quantity]]
    /\ log' = [log EXCEPT ![p] = << >>]
    /\ pre' = [pre EXCEPT ![p] = SnapshotB]
    /\ result' = [result EXCEPT ![p] = NoResult]

\* map_err(|err| XError::new(err.message))? on a failed port call.
\* The port's RepoError carries a message of the port's own.
PortError(port) ==
    CASE port = "price_for" -> "price_for failed"
      [] port = "add_item" -> "add_item failed"
      [] port = "find_by_email" -> "find_by_email failed"
      [] port = "find_by_name" -> "find_by_name failed"
      [] port = "today" -> "today failed"
      [] port = "items_for" -> "items_for failed"
      [] port = "tax_rate" -> "tax_rate failed"
      [] port = "shipping_rate" -> "shipping_rate failed"
      [] port = "quotes.save" -> "quotes.save failed"
      [] port = "invoices.save" -> "invoices.save failed"
      [] port = "render_pdf" -> "render_pdf failed"
      [] port = "send" -> "send failed"
      [] port = "clear" -> "clear failed"

\* A port call that only reads: on success Got(frame) is the frame with the
\* value bound and Reject is None or Some(message of the ok_or_else).
ReadStep(p, port, Got, Reject, next) ==
    /\ \E ok \in BOOLEAN :
        /\ Called(p, port, ok)
        /\ IF ~ok
           THEN Return(p, "Err", Some(PortError(port))) /\ UNCHANGED frame
           ELSE IF is_some(Reject)
                THEN Return(p, "Err", Reject) /\ UNCHANGED frame
                ELSE /\ frame' = [frame EXCEPT ![p] = Got]
                     /\ pc' = [pc EXCEPT ![p] = next]
                     /\ UNCHANGED result
    /\ UNCHANGED <<stores, pricing, ordering, pre, calls>>

(***************************************************************************)
(* ordering::AddItemToCartInteractor::execute.                             *)
(***************************************************************************)
OrderingAddItem_execute(p) ==
    \E email \in OrdShoppers, description \in Descriptions, quantity \in Quantities :
        /\ EnterB(p, "OrderingAddItem", email, description, quantity)
        /\ pc' = [pc EXCEPT ![p] = "oadd_price_for"]
        /\ UNCHANGED <<stores, pricing, ordering>>

OrderingAddItem_price_for(p) ==
    LET price == price_for(frame[p].description)
    IN  /\ pc[p] = "oadd_price_for"
        /\ ReadStep(p, "price_for",
                    [frame[p] EXCEPT !.item =
                        Some(CartLineItem(frame[p].description, frame[p].quantity,
                                          unwrap(price)))],
                    IF is_some(price) THEN None ELSE Some("catalog item not found"),
                    "oadd_add_item")

OrderingAddItem_add_item(p) ==
    /\ pc[p] = "oadd_add_item"
    /\ \E ok \in BOOLEAN :
        /\ Called(p, "add_item", ok)
        /\ IF ~ok
           THEN Return(p, "Err", Some(PortError("add_item"))) /\ UNCHANGED ord_carts
           ELSE /\ ord_carts' = ord_add_item(ord_carts, frame[p].email,
                                             unwrap(frame[p].item))
                /\ Return(p, "Ok", None)
    /\ UNCHANGED <<stores, pricing, ord_employees, ord_schools, ord_quotes, ord_invoices,
                   ord_outbox, frame, pre, calls>>

(***************************************************************************)
(* The steps ViewQuoteInteractor::execute and SubmitQuoteInteractor::      *)
(* execute have in common: resolve the employee, the school code, the      *)
(* date, the cart and the rates, build the quote and save it.              *)
(***************************************************************************)
Quote_find_by_email(p, next) ==
    LET employee == ord_find_by_email(ord_employees, frame[p].email)
    IN  ReadStep(p, "find_by_email",
                 [frame[p] EXCEPT !.employee = employee],
                 IF is_some(employee) THEN None ELSE Some("employee account not found"),
                 next)

\* Faulty variant: a school without a code is taken with the empty code.
Quote_find_by_name_defaulting_code(p, next) ==
    LET school == ord_find_by_name(ord_schools, unwrap(frame[p].employee).school_name)
    IN  ReadStep(p, "find_by_name",
                 [frame[p] EXCEPT !.school_code =
                     IF is_some(unwrap(school).code) THEN unwrap(school).code
                     ELSE Some("")],
                 IF ~is_some(school) THEN Some("school not found") ELSE None,
                 next)

Quote_find_by_name(p, next) ==
    LET school == ord_find_by_name(ord_schools, unwrap(frame[p].employee).school_name)
    IN  ReadStep(p, "find_by_name",
                 [frame[p] EXCEPT !.school_code = unwrap(school).code],
                 IF ~is_some(school) THEN Some("school not found")
                 ELSE IF ~is_some(unwrap(school).code) THEN Some("school code not found")
                 ELSE None,
                 next)

Quote_today(p, next) ==
    ReadStep(p, "today", [frame[p] EXCEPT !.date = Some(DEFAULT_TODAY)], None, next)

\* items_for refusing an empty cart, as the Variant A interactors do.
Quote_items_for_rejecting_empty(p, next) ==
    ReadStep(p, "items_for",
             [frame[p] EXCEPT !.cart_items = items_for(ord_carts, frame[p].email)],
             IF items_for(ord_carts, frame[p].email) = << >>
             THEN Some("cart is empty") ELSE None,
             next)

Quote_items_for(p, next) ==
    ReadStep(p, "items_for",
             [frame[p] EXCEPT !.cart_items = items_for(ord_carts, frame[p].email)],
             None, next)

Quote_tax_rate(p, next) ==
    ReadStep(p, "tax_rate", [frame[p] EXCEPT !.tax_rate = Some(DEFAULT_TAX_RATE)],
             None, next)

\* shipping_rate, then build_quote over what has been gathered.
Quote_shipping_rate(p, next) ==
    ReadStep(p, "shipping_rate",
             [frame[p] EXCEPT !.quote =
                 Some(build_quote(unwrap(frame[p].school_code), unwrap(frame[p].date),
                                  unwrap(frame[p].employee).delivery_window,
                                  frame[p].cart_items, unwrap(frame[p].tax_rate),
                                  DEFAULT_SHIPPING_RATE))],
             None, next)

(***************************************************************************)
(* ViewQuoteInteractor::execute.                                           *)
(***************************************************************************)
ViewQuote_execute(p) ==
    \E email \in OrdEmails :
        /\ EnterB(p, "ViewQuote", email, "", 0)
        /\ pc' = [pc EXCEPT ![p] = "vq_find_by_email"]
        /\ UNCHANGED <<stores, pricing, ordering>>

ViewQuote_find_by_email(p) == pc[p] = "vq_find_by_email" /\ Quote_find_by_email(p, "vq_find_by_name")
ViewQuote_find_by_name(p) == pc[p] = "vq_find_by_name" /\ Quote_find_by_name(p, "vq_today")
ViewQuote_today(p) == pc[p] = "vq_today" /\ Quote_today(p, "vq_items_for")
ViewQuote_items_for(p) == pc[p] = "vq_items_for" /\ Quote_items_for(p, "vq_tax_rate")
ViewQuote_tax_rate(p) == pc[p] = "vq_tax_rate" /\ Quote_tax_rate(p, "vq_shipping_rate")
ViewQuote_shipping_rate(p) == pc[p] = "vq_shipping_rate" /\ Quote_shipping_rate(p, "vq_quotes_save")

ViewQuote_quotes_save(p) ==
    /\ pc[p] = "vq_quotes_save"
    /\ \E ok \in BOOLEAN :
        /\ Called(p, "quotes.save", ok)
        /\ IF ~ok
           THEN Return(p, "Err", Some(PortError("quotes.save"))) /\ UNCHANGED ord_quotes
           ELSE /\ ord_quotes' = ord_save(ord_quotes, unwrap(frame[p].quote))
                /\ Return(p, "Ok", frame[p].quote)
    /\ UNCHANGED <<stores, pricing, ord_employees, ord_schools, ord_carts, ord_invoices,
                   ord_outbox, frame, pre, calls>>

(***************************************************************************)
(* SubmitQuoteInteractor::execute.                                         *)
(***************************************************************************)
SubmitQuote_execute(p) ==
    \E email \in OrdEmails :
        /\ EnterB(p, "SubmitQuote", email, "", 0)
        /\ pc' = [pc EXCEPT ![p] = "sq_find_by_email"]
        /\ UNCHANGED <<stores, pricing, ordering>>

SubmitQuote_find_by_email(p) == pc[p] = "sq_find_by_email" /\ Quote_find_by_email(p, "sq_find_by_name")
SubmitQuote_find_by_name(p) == pc[p] = "sq_find_by_name" /\ Quote_find_by_name(p, "sq_today")
SubmitQuote_today(p) == pc[p] = "sq_today" /\ Quote_today(p, "sq_items_for")
SubmitQuote_items_for(p) == pc[p] = "sq_items_for" /\ Quote_items_for(p, "sq_tax_rate")
SubmitQuote_tax_rate(p) == pc[p] = "sq_tax_rate" /\ Quote_tax_rate(p, "sq_shipping_rate")
SubmitQuote_shipping_rate(p) == pc[p] = "sq_shipping_rate" /\ Quote_shipping_rate(p, "sq_quotes_save")

SubmitQuote_quotes_save(p) ==
    /\ pc[p] = "sq_quotes_save"
    /\ \E ok \in BOOLEAN :
        /\ Called(p, "quotes.save", ok)
        /\ IF ~ok
           THEN Return(p, "Err", Some(PortError("quotes.save"))) /\ UNCHANGED <<ord_quotes, frame>>
           ELSE /\ ord_quotes' = ord_save(ord_quotes, unwrap(frame[p].quote))
                /\ frame' = [frame EXCEPT ![p].invoice =
                                Some(build_invoice(unwrap(frame[p].quote),
                                                   unwrap(frame[p].employee).school_name))]
                /\ pc' = [pc EXCEPT ![p] = "sq_invoices_save"]
                /\ UNCHANGED result
    /\ UNCHANGED <<stores, pricing, ord_employees, ord_schools, ord_carts, ord_invoices,
                   ord_outbox, pre, calls>>

\* Faulty variant: a failed invoice save takes the saved quote back.
SubmitQuote_invoices_save_rolling_back(p) ==
    /\ pc[p] = "sq_invoices_save"
    /\ \E ok \in BOOLEAN :
        /\ Called(p, "invoices.save", ok)
        /\ IF ~ok
           THEN /\ Return(p, "Err", Some(PortError("invoices.save")))
                /\ ord_quotes' = pre[p].quotes
                /\ UNCHANGED ord_invoices
           ELSE /\ ord_invoices' = ord_save(ord_invoices, unwrap(frame[p].invoice))
                /\ pc' = [pc EXCEPT ![p] = "sq_render_pdf"]
                /\ UNCHANGED <<result, ord_quotes>>
    /\ UNCHANGED <<stores, pricing, ord_employees, ord_schools, ord_carts,
                   ord_outbox, frame, pre, calls>>

SubmitQuote_invoices_save(p) ==
    /\ pc[p] = "sq_invoices_save"
    /\ \E ok \in BOOLEAN :
        /\ Called(p, "invoices.save", ok)
        /\ IF ~ok
           THEN Return(p, "Err", Some(PortError("invoices.save"))) /\ UNCHANGED ord_invoices
           ELSE /\ ord_invoices' = ord_save(ord_invoices, unwrap(frame[p].invoice))
                /\ pc' = [pc EXCEPT ![p] = "sq_render_pdf"]
                /\ UNCHANGED result
    /\ UNCHANGED <<stores, pricing, ord_employees, ord_schools, ord_carts, ord_quotes,
                   ord_outbox, frame, pre, calls>>

SubmitQuote_render_pdf(p) ==
    /\ pc[p] = "sq_render_pdf"
    /\ ReadStep(p, "render_pdf",
                [frame[p] EXCEPT !.pdf_bytes = Some(render_pdf(unwrap(frame[p].invoice)))],
                None, "sq_send")

\* Faulty variant: a failed send is ignored and the cart is cleared all the same.
SubmitQuote_send_ignoring_error(p) ==
    /\ pc[p] = "sq_send"
    /\ \E ok \in BOOLEAN :
        /\ Called(p, "send", ok)
        /\ ord_outbox' = IF ok
                         THEN send(ord_outbox,
                                   EmailMessage(unwrap(frame[p].employee).email,
                                                unwrap(frame[p].invoice),
                                                unwrap(frame[p].pdf_bytes)))
                         ELSE ord_outbox
        /\ pc' = [pc EXCEPT ![p] = "sq_clear"]
        /\ UNCHANGED result
    /\ UNCHANGED <<stores, pricing, ord_employees, ord_schools, ord_carts, ord_quotes,
                   ord_invoices, frame, pre, calls>>

SubmitQuote_send(p) ==
    /\ pc[p] = "sq_send"
    /\ \E ok \in BOOLEAN :
        /\ Called(p, "send", ok)
        /\ IF ~ok
           THEN Return(p, "Err", Some(PortError("send"))) /\ UNCHANGED ord_outbox
           ELSE /\ ord_outbox' = send(ord_outbox,
                                      EmailMessage(unwrap(frame[p].employee).email,
                                                   unwrap(frame[p].invoice),
                                                   unwrap(frame[p].pdf_bytes)))
                /\ pc' = [pc EXCEPT ![p] = "sq_clear"]
                /\ UNCHANGED result
    /\ UNCHANGED <<stores, pricing, ord_employees, ord_schools, ord_carts, ord_quotes,
                   ord_invoices, frame, pre, calls>>

SubmitQuote_clear(p) ==
    /\ pc[p] = "sq_clear"
    /\ \E ok \in BOOLEAN :
        /\ Called(p, "clear", ok)
        /\ IF ~ok
           THEN Return(p, "Err", Some(PortError("clear"))) /\ UNCHANGED ord_carts
           ELSE /\ ord_carts' = ord_clear(ord_carts, frame[p].email)
                /\ Return(p, "Ok", Some([quote_number |-> unwrap(frame[p].quote).number]))
    /\ UNCHANGED <<stores, pricing, ord_employees, ord_schools, ord_quotes, ord_invoices,
                   ord_outbox, frame, pre, calls>>

(***************************************************************************)
(* The ordering module on its own: the stores as OrderingState::new builds *)
(* them, with three employees signed up.                                   *)
(***************************************************************************)
InitB ==
    /\ employees = SeedEmployees
    /\ AccountStores
    /\ carts = [e \in EmployeeIds |-> None]
    /\ invoices = << >>
    /\ invoice_next_id = 1
    /\ quotes = << >>
    /\ quote_next_id = 1
    /\ sent = << >>
    /\ pricing = DefaultPolicy
    /\ OrderingStores
    /\ pc = [p \in Procs |-> "idle"]
    /\ frame = [p \in Procs |-> IdleFrameB]
    /\ result = [p \in Procs |-> NoResult]
    /\ log = [p \in Procs |-> << >>]
    /\ pre = [p \in Procs |-> SnapshotB]
    /\ calls = 0

NextB ==
    \E p \in Procs :
        \/ OrderingAddItem_execute(p)
        \/ OrderingAddItem_price_for(p)
        \/ OrderingAddItem_add_item(p)
        \/ ViewQuote_execute(p)
        \/ ViewQuote_find_by_email(p)
        \/ ViewQuote_find_by_name(p)
        \/ ViewQuote_today(p)
        \/ ViewQuote_items_for(p)
        \/ ViewQuote_tax_rate(p)
        \/ ViewQuote_shipping_rate(p)
        \/ ViewQuote_quotes_save(p)
        \/ SubmitQuote_execute(p)
        \/ SubmitQuote_find_by_email(p)
        \/ SubmitQuote_find_by_name(p)
        \/ SubmitQuote_today(p)
        \/ SubmitQuote_items_for(p)
        \/ SubmitQuote_tax_rate(p)
        \/ SubmitQuote_shipping_rate(p)
        \/ SubmitQuote_quotes_save(p)
        \/ SubmitQuote_invoices_save(p)
        \/ SubmitQuote_render_pdf(p)
        \/ SubmitQuote_send(p)
        \/ SubmitQuote_clear(p)

SpecB == InitB /\ [][NextB]_vars

(***************************************************************************)
(* Properties of the ordering module.                                      *)
(***************************************************************************)
QuoteReturned(p) == Returned(p, "ViewQuote") \/ Returned(p, "SubmitQuote")

\* The cart of the invocation in slot p held no line when execute() was entered.
EmptyCartBefore(p) == items_for(pre[p].carts, frame[p].email) = << >>

\* The employee behind the e-mail address signed up for a school that has a code.
HasSchoolCode(email) ==
    /\ is_some(ord_employees[email])
    /\ is_some(ord_schools[unwrap(ord_employees[email]).school_name])
    /\ is_some(unwrap(ord_schools[unwrap(ord_employees[email]).school_name]).code)

NoLineQuote(q) ==
    /\ q.line_items = << >>
    /\ q.subtotal = f64_zero
    /\ q.tax = f64_zero
    /\ q.shipping = f64_zero
    /\ q.total = f64_zero

Threads == 1 .. MaxThreads

SampleDraft(employee_id) ==
    InvoiceDraft([id |-> employee_id],
                 price_order(DefaultPolicy,
                             build_cart_lines(
                                 [employee_id |-> employee_id,
                                  items |-> <<[product_id |-> 1, quantity |-> 1]>>], 0)))

HoldsInvoiceNextId(t) == pc[t] \in {"ci_increment", "ci_push"}
HoldsQuoteNextId(t) == pc[t] \in {"cq_increment", "cq_push"}

CreateFrame(op, draft) == [op |-> op, draft |-> draft, record |-> None]

\* A thread calls create_invoice(draft).
CreateInvoice_call(t) ==
    /\ pc[t] = "idle"
    /\ calls < MaxCalls
    /\ calls' = calls + 1
    /\ \E e \in Shoppers :
           frame' = [frame EXCEPT ![t] = CreateFrame("create_invoice", SampleDraft(e))]
    /\ pc' = [pc EXCEPT ![t] = "ci_lock_next_id"]
    /\ result' = [result EXCEPT ![t] = NoResult]
    /\ UNCHANGED <<stores, pricing, ordering, log, pre>>

\* Faulty variant: next_id is read without waiting for its mutex.
CreateInvoice_lock_next_id_without_mutex(t) ==
    /\ pc[t] = "ci_lock_next_id"
    /\ frame' = [frame EXCEPT ![t].record =
                    Some([id |-> invoice_next_id,
                          employee_id |-> frame[t].draft.employee_id,
                          items |-> frame[t].draft.items,
                          subtotal |-> frame[t].draft.subtotal,
                          fee |-> frame[t].draft.fee,
                          tax |-> frame[t].draft.tax,
                          total |-> frame[t].draft.total])]
    /\ pc' = [pc EXCEPT ![t] = "ci_increment"]
    /\ UNCHANGED <<stores, pricing, ordering, result, log, pre, calls>>

\* self.next_id.lock(), then the Invoice built with id *next_id.
CreateInvoice_lock_next_id(t) ==
    /\ pc[t] = "ci_lock_next_id"
    /\ \A u \in Threads : ~HoldsInvoiceNextId(u)
    /\ frame' = [frame EXCEPT ![t].record =
                    Some([id |-> invoice_next_id,
                          employee_id |-> frame[t].draft.employee_id,
                          items |-> frame[t].draft.items,
                          subtotal |-> frame[t].draft.subtotal,
                          fee |-> frame[t].draft.fee,
                          tax |-> frame[t].draft.tax,
                          total |-> frame[t].draft.total])]
    /\ pc' = [pc EXCEPT ![t] = "ci_increment"]
    /\ UNCHANGED <<stores, pricing, ordering, result, log, pre, calls>>

\* *next_id += 1
CreateInvoice_increment(t) ==
    /\ pc[t] = "ci_increment"
    /\ invoice_next_id' = invoice_next_id + 1
    /\ pc' = [pc EXCEPT ![t] = "ci_push"]
    /\ UNCHANGED <<accounts, employees, carts, invoices, quotes, quote_next_id, sent, pricing,
                   ordering, frame, result, log, pre, calls>>

\* self.invoices.lock().unwrap().push(invoice.clone()); Ok(invoice); both guards drop.
CreateInvoice_push(t) ==
    /\ pc[t] = "ci_push"
    /\ invoices' = Append(invoices, unwrap(frame[t].record))
    /\ Return(t, "Ok", frame[t].record)
    /\ UNCHANGED <<accounts, employees, carts, invoice_next_id, quotes, quote_next_id, sent,
                   pricing, ordering, frame, log, pre, calls>>

\* A thread calls create_quote(draft).
CreateQuote_call(t) ==
    /\ pc[t] = "idle"
    /\ calls < MaxCalls
    /\ calls' = calls + 1
    /\ \E e \in Shoppers, now \in Timestamps :
           frame' = [frame EXCEPT ![t] =
                        CreateFrame("create_quote",
                                    SampleDraft(e) @@ [submitted_at |-> now])]
    /\ pc' = [pc EXCEPT ![t] = "cq_lock_next_id"]
    /\ result' = [result EXCEPT ![t] = NoResult]
    /\ UNCHANGED <<stores, pricing, ordering, log, pre>>

\* self.next_id.lock(), then the QuoteRecord built with id *next_id.
CreateQuote_lock_next_id(t) ==
    /\ pc[t] = "cq_lock_next_id"
    /\ \A u \in Threads : ~HoldsQuoteNextId(u)
    /\ frame' = [frame EXCEPT ![t].record =
                    Some([id |-> quote_next_id,
                          employee_id |-> frame[t].draft.employee_id,
                          items |-> frame[t].draft.items,
                          subtotal |-> frame[t].draft.subtotal,
                          fee |-> frame[t].draft.fee,
                          tax |-> frame[t].draft.tax,
                          total |-> frame[t].draft.total,
                          submitted_at |-> frame[t].draft.submitted_at])]
    /\ pc' = [pc EXCEPT ![t] = "cq_increment"]
    /\ UNCHANGED <<stores, pricing, ordering, result, log, pre, calls>>

CreateQuote_increment(t) ==
    /\ pc[t] = "cq_increment"
    /\ quote_next_id' = quote_next_id + 1
    /\ pc' = [pc EXCEPT ![t] = "cq_push"]
    /\ UNCHANGED <<accounts, employees, carts, invoices, invoice_next_id, quotes, sent, pricing,
                   ordering, frame, result, log, pre, calls>>

CreateQuote_push(t) ==
    /\ pc[t] = "cq_push"
    /\ quotes' = Append(quotes, unwrap(frame[t].record))
    /\ Return(t, "Ok", frame[t].record)
    /\ UNCHANGED <<accounts, employees, carts, invoices, invoice_next_id, quote_next_id, sent,
                   pricing, ordering, frame, log, pre, calls>>

InitIds ==
    /\ employees = SeedEmployees
    /\ AccountStores
    /\ carts = [e \in EmployeeIds |-> None]
    /\ invoices = << >>
    /\ invoice_next_id = 1
    /\ quotes = << >>
    /\ quote_next_id = 1
    /\ sent = << >>
    /\ pc = [t \in Threads |-> "idle"]
    /\ frame = [t \in Threads |-> CreateFrame("none", None)]
    /\ result = [t \in Threads |-> NoResult]
    /\ log = [t \in Threads |-> << >>]
    /\ pre = [t \in Threads |-> Snapshot]
    /\ calls = 0
    /\ pricing = DefaultPolicy
    /\ OrderingStores

NextIds ==
    \E t \in Threads :
        \/ CreateInvoice_call(t)
        \/ CreateInvoice_lock_next_id(t)
        \/ CreateInvoice_increment(t)
        \/ CreateInvoice_push(t)
        \/ CreateQuote_call(t)
        \/ CreateQuote_lock_next_id(t)
        \/ CreateQuote_increment(t)
        \/ CreateQuote_push(t)

SpecIds == InitIds /\ [][NextIds]_vars

\* C11: under every interleaving of concurrent create_invoice calls, and of
\* concurrent create_quote calls, the i-th record appended carries identity
\* i: identities are 1, 2, 3, ... in append order, hence never shared.
C11_IdentitiesInAppendOrder ==
    /\ \A i \in DOMAIN invoices : invoices[i].id = i
    /\ \A i \in DOMAIN quotes : quotes[i].id = i
    /\ \A i, j \in DOMAIN invoices : i # j => invoices[i].id # invoices[j].id
    /\ \A i, j \in DOMAIN quotes : i # j => quotes[i].id # quotes[j].id

\* An invoice is stored while a create_invoice waits for the next_id mutex
\* that another thread holds, or the same with quotes.
C11_Witness ==
    \E t, u \in Threads :
        /\ t # u
        /\ \/ /\ pc[t] = "ci_lock_next_id" /\ HoldsInvoiceNextId(u)
              /\ Len(invoices) >= 1
           \/ /\ pc[t] = "cq_lock_next_id" /\ HoldsQuoteNextId(u)
              /\ Len(quotes) >= 1

(***************************************************************************)
(* Concurrent AddItemToCart / UpdateCart (Variant A).  The handlers run on *)
(* the threads of the runtime; each port call locks the cart map for its   *)
(* own duration only, so invocations interleave between their port calls.  *)
(* Every thread runs one invocation.                                       *)
(***************************************************************************)
ConcurrentAddItem_execute(t) ==
    /\ frame[t].op = "none"
    /\ AddItemToCart_execute(t)

ConcurrentUpdateCart_execute(t) ==
    /\ frame[t].op = "none"
    /\ UpdateCart_execute(t)

InitCarts ==
    /\ employees = SeedEmployees
    /\ AccountStores
    /\ carts = [e \in EmployeeIds |-> None]
    /\ invoices = << >>
    /\ invoice_next_id = 1
    /\ quotes = << >>
    /\ quote_next_id = 1
    /\ sent = << >>
    /\ pc = [t \in Threads |-> "idle"]
    /\ frame = [t \in Threads |-> IdleFrame]
    /\ result = [t \in Threads |-> NoResult]
    /\ log = [t \in Threads |-> << >>]
    /\ pre = [t \in Threads |-> Snapshot]
    /\ calls = 0
    /\ pricing = DefaultPolicy
    /\ OrderingStores

NextCarts ==
    \E t \in Threads :
        \/ ConcurrentAddItem_execute(t)
        \/ AddItemToCart_find_product(t)
        \/ AddItemToCart_get_cart(t)
        \/ AddItemToCart_save_cart(t)
        \/ AddItemToCart_build_cart_lines(t)
        \/ ConcurrentUpdateCart_execute(t)
        \/ UpdateCart_get_cart(t)
        \/ UpdateCart_save_cart(t)
        \/ UpdateCart_build_cart_lines(t)

SpecCarts == InitCarts /\ [][NextCarts]_vars

\* The stored cart of the employee after the invocation of frame f has run
\* alone, every port call succeeding, on the stored cart it is given.
RunAlone(stored, f) ==
    LET cart == IF is_some(stored) THEN unwrap(stored) ELSE Cart_empty(f.employee_id)
    IN  IF f.op = "AddItemToCart"
        THEN IF f.quantity = 0 \/ ~is_some(find_product(f.product_id))
             THEN stored
             ELSE Some(add_item(cart, f.product_id, f.quantity).cart)
        ELSE IF set_quantity(cart, f.product_id, f.quantity).ok
             THEN Some(set_quantity(cart, f.product_id, f.quantity).cart)
             ELSE stored

\* The stored carts reachable by running the invocations of the threads in S
\* one after another, in every order.
RECURSIVE SerialOutcomes(_, _)
SerialOutcomes(S, stored) ==
    IF S = {} THEN {stored}
    ELSE UNION { SerialOutcomes(S \ {t}, RunAlone(stored, frame[t])) : t \in S }

InvocationsOn(employee_id) ==
    { t \in Threads : frame[t].op # "none" /\ frame[t].employee_id = employee_id }

Quiescent == \A t \in Threads : pc[t] = "idle"

\* C12: once all concurrent AddItemToCart / UpdateCart invocations have
\* returned, none of them having met a port failure, the stored cart of each
\* employee is the one some serial order of those invocations produces.
C12_CartUpdatesSerializable ==
    (Quiescent /\ \A t \in Threads : ~PortFailed(t)) =>
        \A e \in Shoppers : carts[e] \in SerialOutcomes(InvocationsOn(e), None)

(***************************************************************************)
(* Cart on its own (src/core/entities/src/lib.rs): one Cart value, born    *)
(* Cart::empty, on which add_item and set_quantity are called with any     *)
(* product and any u32 quantity.  The frame keeps the cart, the last call  *)
(* with the cart it met, and the call before it.                           *)
(***************************************************************************)
CartProducts == {1, 2}
U32 == 0 .. U32Max

\* The quantities a call is made with: the small ones and those at the top of u32.
QuantitySamples == Quantities \cup {U32Max - 1, U32Max}

NoCall == [op |-> "none", product_id |-> 0, quantity |-> 0,
           before |-> Cart_empty(1), err |-> ""]

CartFrame(cart, last, prev) == [op |-> "Cart", cart |-> cart, last |-> last, prev |-> prev]

CartCall(op, product_id, quantity, outcome) ==
    [op |-> op, product_id |-> product_id, quantity |-> quantity,
     before |-> frame[1].cart, err |-> outcome.err]

Cart_add_item(product_id, quantity) ==
    LET outcome == add_item(frame[1].cart, product_id, quantity)
    IN  /\ frame' = [frame EXCEPT ![1] =
                        CartFrame(outcome.cart,
                                  CartCall("add_item", product_id, quantity, outcome),
                                  frame[1].last)]
        /\ result' = [result EXCEPT ![1] =
                         [kind |-> IF outcome.ok THEN "Ok" ELSE outcome.err, out |-> None]]
        /\ UNCHANGED <<stores, pricing, ordering, pc, log, pre, calls>>

Cart_set_quantity(product_id, quantity) ==
    LET outcome == set_quantity(frame[1].cart, product_id, quantity)
    IN  /\ frame' = [frame EXCEPT ![1] =
                        CartFrame(outcome.cart,
                                  CartCall("set_quantity", product_id, quantity, outcome),
                                  frame[1].last)]
        /\ result' = [result EXCEPT ![1] =
                         [kind |-> IF outcome.ok THEN "Ok" ELSE outcome.err, out |-> None]]
        /\ UNCHANGED <<stores, pricing, ordering, pc, log, pre, calls>>

InitCart ==
    /\ employees = SeedEmployees
    /\ AccountStores
    /\ carts = [e \in EmployeeIds |-> None]
    /\ invoices = << >>
    /\ invoice_next_id = 1
    /\ quotes = << >>
    /\ quote_next_id = 1
    /\ sent = << >>
    /\ pc = [p \in Procs |-> "idle"]
    /\ frame = [p \in Procs |-> CartFrame(Cart_empty(1), NoCall, NoCall)]
    /\ result = [p \in Procs |-> NoResult]
    /\ log = [p \in Procs |-> << >>]
    /\ pre = [p \in Procs |-> Snapshot]
    /\ calls = 0
    /\ pricing = DefaultPolicy
    /\ OrderingStores

NextCart ==
    \/ \E product_id \in CartProducts, quantity \in QuantitySamples : Cart_add_item(product_id, quantity)
    \/ \E product_id \in CartProducts, quantity \in QuantitySamples : Cart_set_quantity(product_id, quantity)

SpecCart == InitCart /\ [][NextCart]_vars

TheCart == frame[1].cart

HasLine(cart, product_id) == \E i \in DOMAIN cart.items : cart.items[i].product_id = product_id

QuantityOf(cart, product_id) ==
    cart.items[CHOOSE i \in DOMAIN cart.items : cart.items[i].product_id = product_id].quantity

\* The lines of the cart for products other than product_id, in order.
OtherLines(cart, product_id) ==
    SelectSeq(cart.items, LAMBDA item : item.product_id # product_id)

\* C13: after any sequence of add_item and set_quantity calls from
\* Cart::empty, successful or not, no two lines of the cart share a product
\* and every line has quantity >= 1.
C13_CartLinesDistinctAndPositive ==
    /\ \A i, j \in DOMAIN TheCart.items :
           i # j => TheCart.items[i].product_id # TheCart.items[j].product_id
    /\ \A i \in DOMAIN TheCart.items : TheCart.items[i].quantity >= 1

\* A failing call has just left a cart of two lines, one of them saturated.
C13_Witness ==
    /\ result[1].kind \in {"InvalidQuantity", "MissingItem"}
    /\ Len(TheCart.items) = 2
    /\ \E i \in DOMAIN TheCart.items : TheCart.items[i].quantity = U32Max

\* The last two calls were add_item(p, a) and add_item(p, b), a, b >= 1, with
\* a + b a quantity a single call can carry.
AddedTwice ==
    /\ frame[1].prev.op = "add_item" /\ frame[1].last.op = "add_item"
    /\ frame[1].prev.product_id = frame[1].last.product_id
    /\ frame[1].prev.quantity >= 1 /\ frame[1].last.quantity >= 1
    /\ frame[1].prev.quantity + frame[1].last.quantity <= U32Max

\* C15: add_item(p, a) followed by add_item(p, b) leaves the cart that a
\* single add_item(p, a + b) leaves (same quantity for p, same other lines),
\* also when the stored quantity saturates: for the two calls just made, and
\* for any two such calls on the cart reached.
C15_AddItemAssociative ==
    /\ AddedTwice =>
           TheCart = add_item(frame[1].prev.before, frame[1].last.product_id,
                              frame[1].prev.quantity + frame[1].last.quantity).cart
    /\ \A p \in CartProducts, a, b \in 1 .. U32Max :
           a + b <= U32Max =>
               add_item(add_item(TheCart, p, a).cart, p, b).cart
                   = add_item(TheCart, p, a + b).cart

\* Two add_item calls for a product already in the cart have just driven
\* its quantity to the saturation bound, which their sum alone does not reach.
C15_Witness ==
    /\ AddedTwice
    /\ HasLine(frame[1].prev.before, frame[1].last.product_id)
    /\ frame[1].prev.quantity + frame[1].last.quantity < U32Max
    /\ QuantityOf(frame[1].prev.before, frame[1].last.product_id)
           + frame[1].prev.quantity + frame[1].last.quantity > U32Max
    /\ QuantityOf(TheCart, frame[1].last.product_id) = U32Max
    /\ Len(TheCart.items) = 2

\* C16: set_quantity(p, 0) on a cart holding p succeeds and removes exactly
\* the line of p, the other lines staying as they were; on a cart without p
\* it fails with MissingItem and leaves the cart unchanged.
C16_SetQuantityZero ==
    (frame[1].last.op = "set_quantity" /\ frame[1].last.quantity = 0) =>
        IF HasLine(frame[1].last.before, frame[1].last.product_id)
        THEN /\ result[1].kind = "Ok"
             /\ ~HasLine(TheCart, frame[1].last.product_id)
             /\ TheCart.items = OtherLines(frame[1].last.before, frame[1].last.product_id)
             /\ Len(TheCart.items) = Len(frame[1].last.before.items) - 1
        ELSE /\ result[1].kind = "MissingItem"
             /\ TheCart = frame[1].last.before

\* set_quantity(p, 0) has just removed the first of two lines.
C16_Witness ==
    /\ frame[1].last.op = "set_quantity" /\ frame[1].last.quantity = 0
    /\ Len(frame[1].last.before.items) = 2
    /\ frame[1].last.before.items[1].product_id = frame[1].last.product_id
    /\ result[1].kind = "Ok"
    /\ Len(TheCart.items) = 1

\* C14: after any sequence of ordering AddItemToCart calls the stored cart
\* of every employee has no two lines with the same description and no line
\* of quantity 0, and a call with quantity 0 fails and stores nothing.
C14_OrderingCartLinesDistinctAndPositive ==
    /\ \A email \in OrdEmails :
           LET items == items_for(ord_carts, email)
           IN  /\ \A i, j \in DOMAIN items :
                      i # j => items[i].description # items[j].description
               /\ \A i \in DOMAIN items : items[i].quantity >= 1
    /\ \A p \in Procs :
           (Returned(p, "OrderingAddItem") /\ frame[p].quantity = 0) =>
               /\ result[p].kind = "Err"
               /\ ord_carts = pre[p].carts

(***************************************************************************)
(* Money as a value type (src/core/entities/src/lib.rs:14-58).  One Money  *)
(* value is built up from Money::zero and Money::from_cents by add,        *)
(* multiply and apply_rate_ppm.  i64 is kept at I64Bits bits.  cargo's dev *)
(* profile checks overflow and panics, its release profile wraps in two's  *)
(* complement; the repository sets neither, so both outcomes are taken.    *)
(***************************************************************************)
I64Max == 2 ^ (I64Bits - 1) - 1
I64Min == -(2 ^ (I64Bits - 1))
I64 == I64Min .. I64Max

Abs(x) == IF x < 0 THEN -x ELSE x

\* Two's-complement value of an integer x.
wrapping(x) == ((x - I64Min) % (2 ^ I64Bits)) + I64Min

\* a * b lies in i64; the product is formed only when it is small.
MulFits(a, b) ==
    \/ a = 0
    \/ b = 0
    \/ /\ Abs(a) <= (I64Max + 1) \div Abs(b)
       /\ a * b \in I64

\* Two's-complement a * b, by halves of b so that no partial product
\* leaves the range of the model checker's integers.
wrapping_mul(a, b) ==
    LET modulus == 2 ^ I64Bits
        half == 2 ^ (I64Bits \div 2)
        ua == a % modulus
        ub == b % modulus
        hi == ub \div half
        lo == ub % half
    IN  wrapping((((ua * hi) % modulus) * half + ua * lo) % modulus)

\* Faulty variant: negative amounts are accepted.
from_cents_accepting_negative(c) ==
    [ok |-> TRUE, err |-> "", money |-> [cents |-> c]]

from_cents(c) ==
    IF c < 0
    THEN [ok |-> FALSE, err |-> "MoneyError", money |-> Money_zero]
    ELSE [ok |-> TRUE, err |-> "", money |-> [cents |-> c]]

cents(self) == self.cents

CentsSamples == {I64Min, -1, 0, 1, RateBase, I64Max}
RateSamples == {I64Min, -RateBase, -1, 0, 1, DefaultTaxRatePpm, RateBase, I64Max}

\* The Money values a single from_cents call yields.
FreshMoney == {from_cents(c).money : c \in {c \in CentsSamples : from_cents(c).ok}}

Computed(money) == [panicked |-> FALSE, money |-> money]
Panicked == [panicked |-> TRUE, money |-> Money_zero]

MoneyFrame(value, last) == [op |-> "Money", value |-> value, last |-> last]

NoMoneyCall == [op |-> "none", arg |-> 0, before |-> Money_zero, kind |-> "Ok"]

\* A call with the given outcome: a panic yields no value.
MoneyStep(op, arg, outcome) ==
    /\ calls < MaxCalls
    /\ calls' = calls + 1
    /\ frame' = [frame EXCEPT ![1] =
                    MoneyFrame(IF outcome.panicked THEN frame[1].value ELSE outcome.money,
                               [op |-> op, arg |-> arg, before |-> frame[1].value,
                                kind |-> IF outcome.panicked THEN "Panic" ELSE "Ok"])]
    /\ UNCHANGED <<stores, pricing, ordering, pc, result, log, pre>>

Money_zero_call ==
    /\ frame[1].op = "Money"
    /\ MoneyStep("zero", 0, Computed(Money_zero))

Money_from_cents_call(c) ==
    LET made == from_cents(c)
    IN  /\ calls < MaxCalls
        /\ calls' = calls + 1
        /\ frame' = [frame EXCEPT ![1] =
                        MoneyFrame(IF made.ok THEN made.money ELSE frame[1].value,
                                   [op |-> "from_cents", arg |-> c,
                                    before |-> frame[1].value,
                                    kind |-> IF made.ok THEN "Ok" ELSE made.err])]
        /\ UNCHANGED <<stores, pricing, ordering, pc, result, log, pre>>

\* other is a value from_cents yields, or a clone of self.
Money_add_call ==
    /\ frame[1].op = "Money"
    /\ \E other \in FreshMoney \cup {frame[1].value} :
           LET self == frame[1].value
           IN  \E outcome \in (IF self.cents + other.cents \in I64
                               THEN {Computed(Money_add(self, other))}
                               ELSE {Panicked,
                                     Computed([cents |-> wrapping(self.cents
                                                                  + other.cents)])}) :
                   MoneyStep("add", other.cents, outcome)

Money_multiply_call(quantity) ==
    LET self == frame[1].value
    IN  \E outcome \in (IF MulFits(self.cents, quantity)
                        THEN {Computed(Money_multiply(self, quantity))}
                        ELSE {Panicked,
                              Computed([cents |-> wrapping_mul(self.cents, quantity)])}) :
            MoneyStep("multiply", quantity, outcome)

Money_apply_rate_ppm_call(rate_ppm) ==
    LET self == frame[1].value
    IN  \E outcome \in (IF MulFits(self.cents, rate_ppm)
                        THEN {Computed(apply_rate_ppm(self, rate_ppm))}
                        ELSE {Panicked,
                              Computed([cents |-> TruncDiv(wrapping_mul(self.cents, rate_ppm),
                                                           RateBase)])}) :
            MoneyStep("apply_rate_ppm", rate_ppm, outcome)

InitMoney ==
    /\ employees = SeedEmployees
    /\ AccountStores
    /\ carts = [e \in EmployeeIds |-> None]
    /\ invoices = << >>
    /\ invoice_next_id = 1
    /\ quotes = << >>
    /\ quote_next_id = 1
    /\ sent = << >>
    /\ pc = [p \in Procs |-> "idle"]
    /\ frame = [p \in Procs |-> MoneyFrame(Money_zero, NoMoneyCall)]
    /\ result = [p \in Procs |-> NoResult]
    /\ log = [p \in Procs |-> << >>]
    /\ pre = [p \in Procs |-> Snapshot]
    /\ calls = 0
    /\ pricing = DefaultPolicy
    /\ OrderingStores

NextMoney ==
    \/ Money_zero_call
    \/ \E c \in CentsSamples : Money_from_cents_call(c)
    \/ Money_add_call
    \/ \E quantity \in U32 : Money_multiply_call(quantity)
    \/ \E rate_ppm \in RateSamples : Money_apply_rate_ppm_call(rate_ppm)

SpecMoney == InitMoney /\ [][NextMoney]_vars

LastMoneyCall == frame[1].last

\* C17: Money::from_cents(c) succeeds for every c >= 0 and the result's
\* cents() is c; for every c < 0 it fails with MoneyError.
C17_FromCentsRoundTrip ==
    LastMoneyCall.op = "from_cents" =>
        IF LastMoneyCall.arg >= 0
        THEN /\ LastMoneyCall.kind = "Ok"
             /\ cents(frame[1].value) = LastMoneyCall.arg
        ELSE /\ LastMoneyCall.kind = "MoneyError"
             /\ frame[1].value = LastMoneyCall.before

\* from_cents has succeeded on a positive amount, which replaced a
\* different value.
C17_Witness ==
    /\ LastMoneyCall.op = "from_cents"
    /\ LastMoneyCall.arg > 0
    /\ LastMoneyCall.kind = "Ok"
    /\ LastMoneyCall.before # frame[1].value

\* C18: every Money value obtained from Money::zero and Money::from_cents
\* through add, multiply and apply_rate_ppm has cents >= 0.
C18_MoneyNeverNegative == cents(frame[1].value) >= 0

(***************************************************************************)
(* ViewCartInteractor::execute (src/core/use_cases/src/lib.rs:292-301),    *)
(* and the three interactors that return a CartOutput run over stored      *)
(* carts whose lines were inserted in any order.  UpdateCart does not      *)
(* consult the catalog, so a stored cart may hold an unknown product.      *)
(***************************************************************************)
ViewCart_execute(p) ==
    \E e \in Shoppers :
        /\ Enter(p, "ViewCart", e, 0, 0)
        /\ pc' = [pc EXCEPT ![p] = "view_get_cart"]
        /\ result' = [result EXCEPT ![p] = NoResult]
        /\ UNCHANGED <<stores, pricing, ordering>>

\* Faulty variant: the cart that was read, or the empty one, is stored.
ViewCart_get_cart_storing(p) ==
    /\ pc[p] = "view_get_cart"
    /\ \E ok \in BOOLEAN :
        /\ Called(p, "get_cart", ok)
        /\ IF ~ok
           THEN Return(p, "Repo", None) /\ UNCHANGED <<frame, carts>>
           ELSE LET got == get_cart(carts, frame[p].employee_id)
                    cart == IF is_some(got) THEN unwrap(got)
                            ELSE Cart_empty(frame[p].employee_id)
                IN  /\ frame' = [frame EXCEPT ![p].cart = Some(cart)]
                    /\ carts' = save_cart(carts, cart)
                    /\ pc' = [pc EXCEPT ![p] = "view_build_cart_lines"]
                    /\ UNCHANGED result
    /\ UNCHANGED <<accounts, employees, invoices, invoice_next_id, quotes, quote_next_id, sent,
                   pre, calls, pricing, ordering>>

ViewCart_get_cart(p) ==
    /\ pc[p] = "view_get_cart"
    /\ \E ok \in BOOLEAN :
        /\ Called(p, "get_cart", ok)
        /\ IF ~ok
           THEN Return(p, "Repo", None) /\ UNCHANGED frame
           ELSE LET got == get_cart(carts, frame[p].employee_id)
                    cart == IF is_some(got) THEN unwrap(got)
                            ELSE Cart_empty(frame[p].employee_id)
                IN  /\ frame' = [frame EXCEPT ![p].cart = Some(cart)]
                    /\ pc' = [pc EXCEPT ![p] = "view_build_cart_lines"]
                    /\ UNCHANGED result
    /\ UNCHANGED <<stores, pre, calls, pricing, ordering>>

ViewCart_build_cart_lines(p) ==
    /\ pc[p] = "view_build_cart_lines"
    /\ CartOutput_build_cart_lines(p)
    /\ UNCHANGED <<stores, frame, pre, calls, pricing, ordering>>

InitCartOutput ==
    /\ employees = SeedEmployees
    /\ AccountStores
    /\ \E lines \in CartLineSamples :
           carts = [e \in EmployeeIds |->
                        IF e = 1 /\ lines # << >>
                        THEN Some([employee_id |-> e, items |-> lines])
                        ELSE None]
    /\ invoices = << >>
    /\ invoice_next_id = 1
    /\ quotes = << >>
    /\ quote_next_id = 1
    /\ sent = << >>
    /\ pc = [p \in Procs |-> "idle"]
    /\ frame = [p \in Procs |-> IdleFrame]
    /\ result = [p \in Procs |-> NoResult]
    /\ log = [p \in Procs |-> << >>]
    /\ pre = [p \in Procs |-> Snapshot]
    /\ calls = MaxCalls - 2
    /\ pricing = DefaultPolicy
    /\ OrderingStores

NextCartOutput ==
    \E p \in Procs :
        \/ ViewCart_execute(p)
        \/ ViewCart_get_cart(p)
        \/ ViewCart_build_cart_lines(p)
        \/ AddItemToCart_execute(p)
        \/ AddItemToCart_find_product(p)
        \/ AddItemToCart_get_cart(p)
        \/ AddItemToCart_save_cart(p)
        \/ AddItemToCart_build_cart_lines(p)
        \/ UpdateCart_execute(p)
        \/ UpdateCart_get_cart(p)
        \/ UpdateCart_save_cart(p)
        \/ UpdateCart_build_cart_lines(p)

SpecCartOutput == InitCartOutput /\ [][NextCartOutput]_vars

CartOutputOps == {"ViewCart", "AddItemToCart", "UpdateCart"}

\* The orders in which the lines of a list can have been inserted.
Reorderings(lines) ==
    { [i \in DOMAIN lines |-> lines[f[i]]] :
          f \in { g \in [DOMAIN lines -> DOMAIN lines] :
                      \A i, j \in DOMAIN lines : i # j => g[i] # g[j] } }

\* C19: the subtotal ViewCart, AddItemToCart and UpdateCart return for a
\* cart of catalog products is the sum over its lines of unit_price *
\* quantity, and a cart holding the same lines in any other order gets the
\* same subtotal.
C19_SubtotalIsSumInAnyOrder ==
    \A p \in Procs :
        (/\ frame[p].op \in CartOutputOps
         /\ Returned(p, frame[p].op)
         /\ result[p].kind = "Ok") =>
            LET cart == unwrap(frame[p].cart)
                out == unwrap(result[p].out)
            IN  /\ AllInCatalog(cart.items)
                /\ Len(out.items) = Len(cart.items)
                /\ out.subtotal.cents = ExpectedSubtotal(cart.items)
                /\ \A lines \in Reorderings(cart.items) :
                       build_cart_lines([cart EXCEPT !.items = lines], 0).subtotal
                           = out.subtotal

\* ViewCart has returned the subtotal of a two-line cart whose lines differ
\* in unit price and one of which has a quantity above 1.
C19_Witness ==
    \E p \in Procs :
        /\ Returned(p, "ViewCart")
        /\ result[p].kind = "Ok"
        /\ Len(unwrap(frame[p].cart).items) = 2
        /\ \E i \in 1 .. 2 : unwrap(frame[p].cart).items[i].quantity > 1
        /\ unwrap(result[p].out).subtotal.cents > 0

\* The cart of the employee slot p serves, as stored now.
CartNow(p) == LinesOf(carts[frame[p].employee_id])

LineAt(lines, product_id) ==
    CHOOSE i \in DOMAIN lines : lines[i].product_id = product_id

\* C20: AddItemToCart fails with Validation when quantity is 0 and (the
\* catalog answering) with NotFound when the product is not in the catalog,
\* in both cases without calling save_cart and with every stored cart
\* unchanged; otherwise save_cart is called, and when it succeeds it has
\* stored the employee's previous cart (or an empty one) with the quantity
\* summed into the product's line (sums within u32), every other line and
\* every other employee's cart as before.
C20_AddItemRejectsOrPersists ==
    \A p \in Procs :
        Returned(p, "AddItemToCart") =>
            LET product_id == frame[p].product_id
                quantity == frame[p].quantity
                before == CartBefore(p)
                now == CartNow(p)
                had == \E i \in DOMAIN before : before[i].product_id = product_id
            IN  /\ quantity = 0 =>
                       /\ result[p].kind = "Validation"
                       /\ log[p] = << >>
                       /\ carts = pre[p].carts
                /\ (quantity > 0 /\ ~InCatalog(product_id)) =>
                       /\ ~PortFailed(p) => result[p].kind = "NotFound"
                       /\ result[p].kind \in {"NotFound", "Repo"}
                       /\ Pos(p, "save_cart") = {}
                       /\ carts = pre[p].carts
                /\ (quantity > 0 /\ InCatalog(product_id)) =>
                       /\ ~PortFailed(p) => \E i \in Pos(p, "save_cart") : log[p][i].ok
                       /\ IF \E i \in Pos(p, "save_cart") : log[p][i].ok
                          THEN /\ \A e \in EmployeeIds :
                                      e # frame[p].employee_id => carts[e] = pre[p].carts[e]
                               /\ carts[frame[p].employee_id] # None
                               /\ IF had
                                  THEN LET i == LineAt(before, product_id)
                                       IN  /\ Len(now) = Len(before)
                                           /\ \A j \in DOMAIN before :
                                                  j # i => now[j] = before[j]
                                           /\ now[i].product_id = product_id
                                           /\ before[i].quantity + quantity <= U32Max =>
                                                  now[i].quantity
                                                      = before[i].quantity + quantity
                                  ELSE /\ GrewByOne(now, before)
                                       /\ Last(now) = [product_id |-> product_id,
                                                       quantity |-> quantity]
                          ELSE carts = pre[p].carts

\* AddItemToCart has returned Ok after adding to a line the cart already
\* had, and the stored line carries the sum.
C20_Witness ==
    \E p \in Procs :
        /\ Returned(p, "AddItemToCart")
        /\ result[p].kind = "Ok"
        /\ \E i \in DOMAIN CartBefore(p) :
               /\ CartBefore(p)[i].product_id = frame[p].product_id
               /\ CartNow(p)[i].quantity = CartBefore(p)[i].quantity + frame[p].quantity

\* The lines of a list for products other than product_id, in order.
LinesBut(lines, product_id) ==
    SelectSeq(lines, LAMBDA item : item.product_id # product_id)

LinesFor(lines, product_id) ==
    SelectSeq(lines, LAMBDA item : item.product_id = product_id)

SavedOk(p) == \E i \in Pos(p, "save_cart") : log[p][i].ok

GotCartOk(p) == \E i \in Pos(p, "get_cart") : log[p][i].ok

\* C21: UpdateCart with quantity q >= 1 persists a cart in which the
\* product's line has exactly quantity q (appended if absent) and every other
\* line is unchanged; with q = 0 it removes the line if present, and if the
\* product has no line it fails with Validation without saving anything.
C21_UpdateCartUpserts ==
    \A p \in Procs :
        Returned(p, "UpdateCart") =>
            LET product_id == frame[p].product_id
                quantity == frame[p].quantity
                before == CartBefore(p)
                now == CartNow(p)
                had == LinesFor(before, product_id) # << >>
            IN  /\ (GotCartOk(p) /\ (quantity >= 1 \/ had)) => Pos(p, "save_cart") # {}
                /\ (GotCartOk(p) /\ quantity = 0 /\ ~had) =>
                       /\ result[p].kind = "Validation"
                       /\ Pos(p, "save_cart") = {}
                /\ IF SavedOk(p)
                   THEN /\ \A e \in EmployeeIds :
                               e # frame[p].employee_id => carts[e] = pre[p].carts[e]
                        /\ carts[frame[p].employee_id] # None
                        /\ LinesBut(now, product_id) = LinesBut(before, product_id)
                        /\ LinesFor(now, product_id) =
                               IF quantity = 0 THEN << >>
                               ELSE << [product_id |-> product_id, quantity |-> quantity] >>
                        /\ (quantity >= 1 /\ had) =>
                               now[LineAt(before, product_id)].product_id = product_id
                        /\ (quantity >= 1 /\ ~had) => GrewByOne(now, before)
                   ELSE carts = pre[p].carts

\* UpdateCart has lowered the quantity of a line of a two-line cart and
\* saved it.
C21_Witness ==
    \E p \in Procs :
        /\ Returned(p, "UpdateCart")
        /\ SavedOk(p)
        /\ frame[p].quantity >= 1
        /\ Len(CartBefore(p)) = 2
        /\ \E i \in DOMAIN CartBefore(p) :
               /\ CartBefore(p)[i].product_id = frame[p].product_id
               /\ CartBefore(p)[i].quantity > frame[p].quantity

InViewCart(p) == frame[p].op = "ViewCart" /\ (pc[p] # "idle" \/ result[p].kind # "none")

\* C22: a ViewCart call, while it runs and once it has returned Ok or Err,
\* has called neither save_cart nor clear_cart and has left every stored
\* cart, and the absence of one, as it was when the call began.
C22_ViewCartReadOnly ==
    \A p \in Procs :
        InViewCart(p) =>
            /\ Pos(p, "save_cart") = {}
            /\ Pos(p, "clear_cart") = {}
            /\ carts = pre[p].carts
            /\ <<invoices, quotes, sent>> = <<pre[p].invoices, pre[p].quotes, pre[p].sent>>

\* ViewCart has returned the empty view for an employee without a stored
\* cart, and there is still none.
C22_Witness ==
    \E p \in Procs :
        /\ Returned(p, "ViewCart")
        /\ result[p].kind = "Ok"
        /\ unwrap(result[p].out).items = << >>
        /\ carts[frame[p].employee_id] = None

(***************************************************************************)
(* Properties of SubmitQuote's pipeline.                                   *)
(***************************************************************************)
\* The ports SubmitQuote calls once the quote is built, in source order.
SubmitSteps == <<"quotes.save", "invoices.save", "render_pdf", "send", "clear">>

InSubmitQuote(p) == frame[p].op = "SubmitQuote"

PortOk(p, port) == \E i \in Pos(p, port) : log[p][i].ok

\* How many of the stores' records the invocation in slot p has added.
Added(now, before) == Len(now) - Len(before)

\* C23: in every execution of SubmitQuote the quote is saved, then the
\* invoice, then the PDF is rendered, then the e-mail is sent, then the cart
\* is cleared: each of these port calls is made at most once and only after
\* the one before it returned Ok, and the stores agree (an e-mail in the
\* outbox goes with a saved invoice, a saved invoice with a saved quote, and
\* a cart emptied by the call with an e-mail sent by it).
C23_SubmitQuoteOrder ==
    \A p \in Procs :
        InSubmitQuote(p) =>
            /\ \A k \in DOMAIN SubmitSteps : Cardinality(Pos(p, SubmitSteps[k])) <= 1
            /\ \A k \in 2 .. Len(SubmitSteps) :
                   \A i \in Pos(p, SubmitSteps[k]) :
                       \E j \in Pos(p, SubmitSteps[k - 1]) : j < i /\ log[p][j].ok
            /\ Added(ord_quotes, pre[p].quotes) = IF PortOk(p, "quotes.save") THEN 1 ELSE 0
            /\ Added(ord_invoices, pre[p].invoices) = IF PortOk(p, "invoices.save") THEN 1 ELSE 0
            /\ Added(ord_outbox, pre[p].outbox) = IF PortOk(p, "send") THEN 1 ELSE 0
            /\ ord_carts # pre[p].carts => PortOk(p, "send") /\ PortOk(p, "clear")
            /\ ~PortOk(p, "clear") => ord_carts = pre[p].carts

\* SubmitQuote has returned Ok for an employee whose cart held a line: all
\* five steps ran and the cart is gone.
C23_Witness ==
    \E p \in Procs :
        /\ Returned(p, "SubmitQuote")
        /\ result[p].kind = "Ok"
        /\ items_for(pre[p].carts, frame[p].email) # << >>
        /\ items_for(ord_carts, frame[p].email) = << >>
        /\ Len(log[p]) = 11

FailedStep(p, k) == \E i \in Pos(p, SubmitSteps[k]) : ~log[p][i].ok

\* C24: when step k of SubmitQuote (quote save, invoice save, PDF render,
\* e-mail send, cart clear) fails, SubmitQuote returns a QuoteError with that
\* failure's message, no later step is called, and what the steps before k
\* did stays: the quote and the invoice saved, the e-mail sent, and the cart
\* as it was.
C24_SubmitQuoteAbortsKeepingEffects ==
    \A p \in Procs :
        \A k \in DOMAIN SubmitSteps :
            (Returned(p, "SubmitQuote") /\ FailedStep(p, k)) =>
                /\ result[p].kind = "Err"
                /\ result[p].out = Some(PortError(SubmitSteps[k]))
                /\ \A j \in DOMAIN SubmitSteps :
                       /\ j > k => Pos(p, SubmitSteps[j]) = {}
                       /\ j < k => PortOk(p, SubmitSteps[j])
                /\ ord_quotes = IF k > 1 THEN Append(pre[p].quotes, unwrap(frame[p].quote))
                                ELSE pre[p].quotes
                /\ ord_invoices = IF k > 2
                                  THEN Append(pre[p].invoices, unwrap(frame[p].invoice))
                                  ELSE pre[p].invoices
                /\ Added(ord_outbox, pre[p].outbox) = IF k > 4 THEN 1 ELSE 0
                /\ ord_carts = pre[p].carts

\* The renderer has failed for an employee with a line in the cart: the
\* quote and the invoice are saved, nothing was sent, the cart is intact.
C24_Witness ==
    \E p \in Procs :
        /\ Returned(p, "SubmitQuote")
        /\ FailedStep(p, 3)
        /\ items_for(ord_carts, frame[p].email) # << >>
        /\ Added(ord_quotes, pre[p].quotes) = 1
        /\ Added(ord_invoices, pre[p].invoices) = 1
        /\ ord_outbox = pre[p].outbox

\* The ports a quote's inputs are read through, in source order.
InputPorts == <<"find_by_email", "find_by_name", "today", "items_for", "tax_rate",
                "shipping_rate">>

InputPortFailed(p) ==
    \E k \in DOMAIN InputPorts : \E i \in Pos(p, InputPorts[k]) : ~log[p][i].ok

EmployeeMissing(email) == ~is_some(ord_employees[email])

SchoolMissing(email) ==
    /\ is_some(ord_employees[email])
    /\ ~is_some(ord_schools[unwrap(ord_employees[email]).school_name])

SchoolCodeMissing(email) ==
    /\ is_some(ord_employees[email])
    /\ is_some(ord_schools[unwrap(ord_employees[email]).school_name])
    /\ ~is_some(unwrap(ord_schools[unwrap(ord_employees[email]).school_name]).code)

OrderingUntouched(p) ==
    /\ ord_quotes = pre[p].quotes
    /\ ord_invoices = pre[p].invoices
    /\ ord_outbox = pre[p].outbox
    /\ ord_carts = pre[p].carts

\* C25: ViewQuote and SubmitQuote return QuoteError, save no quote and no
\* invoice, send no e-mail and leave the cart unchanged when the employee
\* record is missing, the school record is missing, the school has no code,
\* or the clock, the cart read, the tax rate or the shipping rate fails; with
\* every port answering, the error names the missing piece, and a failing
\* port's message is the error's message.
C25_QuoteInputsFailFast ==
    \A p \in Procs :
        QuoteReturned(p) =>
            LET email == frame[p].email
                missing == EmployeeMissing(email) \/ SchoolMissing(email)
                               \/ SchoolCodeMissing(email)
            IN  /\ (missing \/ InputPortFailed(p)) =>
                       /\ result[p].kind = "Err"
                       /\ OrderingUntouched(p)
                       /\ \A k \in DOMAIN SubmitSteps : Pos(p, SubmitSteps[k]) = {}
                /\ (missing /\ ~InputPortFailed(p)) =>
                       result[p].out =
                           Some(IF EmployeeMissing(email) THEN "employee account not found"
                                ELSE IF SchoolMissing(email) THEN "school not found"
                                ELSE "school code not found")
                /\ \A k \in DOMAIN InputPorts :
                       (\E i \in Pos(p, InputPorts[k]) : ~log[p][i].ok) =>
                           /\ result[p].out = Some(PortError(InputPorts[k]))
                           /\ \A j \in DOMAIN InputPorts :
                                  j > k => Pos(p, InputPorts[j]) = {}

\* SubmitQuote has been refused for an employee whose school has no code
\* and whose cart holds a line; the cart is still there.
C25_Witness ==
    \E p \in Procs :
        /\ Returned(p, "SubmitQuote")
        /\ SchoolCodeMissing(frame[p].email)
        /\ ~InputPortFailed(p)
        /\ result[p].kind = "Err"
        /\ items_for(ord_carts, frame[p].email) # << >>

(***************************************************************************)
(* The ordering module with a school stored under an empty code:           *)
(* School.code is an Option<String>, and InMemorySchoolRepository::seed    *)
(* and ::upsert store whatever string they are given.                      *)
(***************************************************************************)
EmptyCodeSchools ==
    [SeedSchools EXCEPT ![CodelessSchool] =
        Some([name |-> CodelessSchool, code |-> Some("")])]

InitEmptyCode ==
    /\ employees = SeedEmployees
    /\ AccountStores
    /\ carts = [e \in EmployeeIds |-> None]
    /\ invoices = << >>
    /\ invoice_next_id = 1
    /\ quotes = << >>
    /\ quote_next_id = 1
    /\ sent = << >>
    /\ pricing = DefaultPolicy
    /\ ord_employees = SeedOrdEmployees
    /\ ord_schools = EmptyCodeSchools
    /\ ord_carts = [e \in OrdEmails |-> None]
    /\ ord_quotes = << >>
    /\ ord_invoices = << >>
    /\ ord_outbox = << >>
    /\ pc = [p \in Procs |-> "idle"]
    /\ frame = [p \in Procs |-> IdleFrameB]
    /\ result = [p \in Procs |-> NoResult]
    /\ log = [p \in Procs |-> << >>]
    /\ pre = [p \in Procs |-> SnapshotB]
    /\ calls = 0

SpecEmptyCode == InitEmptyCode /\ [][NextB]_vars

SchoolCodeEmpty(email) ==
    /\ is_some(ord_employees[email])
    /\ is_some(ord_schools[unwrap(ord_employees[email]).school_name])
    /\ unwrap(ord_schools[unwrap(ord_employees[email]).school_name]).code = Some("")

\* C26: when the employee's school record has the empty string as its code,
\* ViewQuote and SubmitQuote fail with QuoteError and save no quote; no
\* stored quote has a number without a school code in front of the x.
C26_EmptySchoolCodeRejected ==
    /\ \A p \in Procs :
           (QuoteReturned(p) /\ SchoolCodeEmpty(frame[p].email)) =>
               /\ result[p].kind = "Err"
               /\ ord_quotes = pre[p].quotes
    /\ \A i \in DOMAIN ord_quotes : Head(ord_quotes[i].number) # ""

(***************************************************************************)
(* build_quote and build_invoice as functions                              *)
(* (quote_builder.rs:3-38, submit_quote_interactor.rs:145-164), applied    *)
(* once to sampled school codes, dates, carts and rates.                   *)
(***************************************************************************)
SchoolCodeSamples == {DEFAULT_SCHOOL_CODE, "01M015"}

\* CalendarDate's fields are u32; these are values of at most two digits.
DatePartSamples == {0, 9, 12, 22, 25, 99}

\* Quantities of stored ordering cart lines (nothing bounds them below).
OrdQuantitySamples == {0, 1, 8}

OrdCartItemSamples ==
    { CartLineItem(d, q, CatalogItems[d]) : d \in DOMAIN CatalogItems, q \in OrdQuantitySamples }

OrdCartSamples == UNION { [1 .. n -> OrdCartItemSamples] : n \in 0 .. 2 }

TaxRateSamples == {f64_zero, DEFAULT_TAX_RATE}
ShippingRateSamples == {f64_zero, DEFAULT_SHIPPING_RATE}

BuildQuote_call ==
    /\ frame[1].op = "none"
    /\ \E school_code \in SchoolCodeSamples, month \in DatePartSamples,
          day \in DatePartSamples, year_two_digits \in DatePartSamples,
          cart_items \in OrdCartSamples, tax_rate \in TaxRateSamples,
          shipping_rate \in ShippingRateSamples :
           frame' = [frame EXCEPT ![1] =
               [op |-> "build_quote",
                school_code |-> school_code,
                date |-> [month |-> month, day |-> day,
                          year_two_digits |-> year_two_digits],
                cart_items |-> cart_items,
                tax_rate |-> tax_rate,
                shipping_rate |-> shipping_rate,
                quote |-> build_quote(school_code,
                                      [month |-> month, day |-> day,
                                       year_two_digits |-> year_two_digits],
                                      "9am-11am", cart_items, tax_rate, shipping_rate),
                invoice |-> None]]
    /\ UNCHANGED <<stores, pricing, ordering, pc, result, log, pre, calls>>

BuildInvoice_call ==
    /\ frame[1].op = "build_quote"
    /\ frame[1].invoice = None
    /\ frame' = [frame EXCEPT ![1].invoice =
                    Some(build_invoice(frame[1].quote, DEFAULT_SCHOOL_NAME))]
    /\ UNCHANGED <<stores, pricing, ordering, pc, result, log, pre, calls>>

NextQuoteBuilder ==
    \/ BuildQuote_call
    \/ BuildInvoice_call

SpecQuoteBuilder == InitB /\ [][NextQuoteBuilder]_vars

QuoteBuilt == frame[1].op = "build_quote"

Digit(k) == DigitChars[k + 1]

TwoDigits(n) == <<Digit(n \div 10), Digit(n % 10)>>

\* C27: for every school code and every date whose month, day and year are
\* each in 0..99, the quote number is the school code, the letter x, then
\* month, day and year as two decimal digits each, zero-padded (28Q082 on
\* 12/22/25 gives 28Q082x122225), and the invoice built from the quote
\* carries the same number.
C27_QuoteNumberFormat ==
    QuoteBuilt =>
        LET date == frame[1].date
        IN  /\ frame[1].quote.number =
                   <<frame[1].school_code, "x">> \o TwoDigits(date.month)
                       \o TwoDigits(date.day) \o TwoDigits(date.year_two_digits)
            /\ (frame[1].school_code = "28Q082" /\ date.month = 12 /\ date.day = 22
                   /\ date.year_two_digits = 25) =>
                   frame[1].quote.number = <<"28Q082", "x", "1", "2", "2", "2", "2", "5">>
            /\ is_some(frame[1].invoice) =>
                   unwrap(frame[1].invoice).quote_number = frame[1].quote.number

\* An invoice has been built from a quote dated with a one-digit month and
\* day: the number is padded.
C27_Witness ==
    /\ QuoteBuilt
    /\ frame[1].date.month = 9
    /\ frame[1].date.day = 0
    /\ is_some(frame[1].invoice)
    /\ Len(frame[1].quote.number) = 8

\* price * 100 as an integer: catalog prices are whole cents.
PriceCents(price) == (price.num * 100) \div price.den

LCM(a, b) == (a * b) \div GCD(a, b)

\* r = a + b + c over the least common denominator.
SumOfThree(r, a, b, c) ==
    LET l == LCM(LCM(a.den, b.den), c.den)
    IN  /\ l % r.den = 0
        /\ r.num * (l \div r.den) =
               a.num * (l \div a.den) + b.num * (l \div b.den) + c.num * (l \div c.den)

\* r = a * b, cross-multiplied.
ProductOf(r, a, b) == r.num * (a.den * b.den) = a.num * b.num * r.den

C29_SubmitQuoteSuccess ==
    \A p \in Procs :
        (Returned(p, "SubmitQuote") /\ result[p].kind = "Ok") =>
            /\ GrewByOne(ord_quotes, pre[p].quotes)
            /\ GrewByOne(ord_invoices, pre[p].invoices)
            /\ GrewByOne(ord_outbox, pre[p].outbox)
            /\ LET quote == Last(ord_quotes)
                   invoice == Last(ord_invoices)
                   email == Last(ord_outbox)
                   employee == unwrap(ord_employees[frame[p].email])
                   cart_items == items_for(pre[p].carts, frame[p].email)
               IN  /\ unwrap(result[p].out).quote_number = quote.number
                   /\ Len(quote.line_items) = Len(cart_items)
                   /\ Len(invoice.line_items) = Len(quote.line_items)
                   /\ \A i \in DOMAIN quote.line_items :
                          /\ quote.line_items[i].description = cart_items[i].description
                          /\ invoice.line_items[i] =
                                 [description |-> quote.line_items[i].description,
                                  quantity |-> quote.line_items[i].quantity,
                                  price |-> quote.line_items[i].price]
                   /\ invoice.tax = <<quote.tax>>
                   /\ invoice.shipping = <<quote.shipping>>
                   /\ invoice.quote_number = quote.number
                   /\ invoice.delivery_window = quote.delivery_window
                   /\ invoice.delivery_window = employee.delivery_window
                   /\ invoice.school = employee.school_name
                   /\ email.to = frame[p].email
                   /\ email.to = employee.email
                   /\ Len(email.attachments) = 1
                   /\ email.attachments[1].content_type = "application/pdf"
                   /\ email.attachments[1].bytes = render_pdf(invoice)
            /\ items_for(ord_carts, frame[p].email) = << >>

\* SubmitQuote has succeeded on a cart of two lines.
C29_Witness ==
    \E p \in Procs :
        /\ Returned(p, "SubmitQuote")
        /\ result[p].kind = "Ok"
        /\ Len(items_for(pre[p].carts, frame[p].email)) = 2
        /\ Len(Last(ord_invoices).line_items) = 2

(***************************************************************************)
(* The readers of the quote store: ListQuotesInteractor::execute and       *)
(* GetQuoteDetailsInteractor::execute (src/core/use_cases/src/lib.rs:      *)
(* 386-402, 425-457), and the whole pipeline with them.                    *)
(***************************************************************************)
list_quotes(store, employee_id) ==
    SelectSeq(store, LAMBDA quote : quote.employee_id = employee_id)

get_quote(store, employee_id, quote_id) ==
    LET hits == { i \in DOMAIN store : /\ store[i].id = quote_id
                                       /\ store[i].employee_id = employee_id }
    IN  IF hits = {} THEN None ELSE Some(store[Min(hits)])

\* quote.items.iter().map(|item| item.quantity).sum() over u32.
ItemCount(quote) == SumSeq([i \in DOMAIN quote.items |-> quote.items[i].quantity])

QuoteSummary(quote, item_count) ==
    [quote_id |-> quote.id, total |-> quote.total, item_count |-> item_count]

QuoteIds == 1 .. MaxCalls

ListQuotes_execute(p) ==
    \E e \in EmployeeIds :
        /\ Enter(p, "ListQuotes", e, 0, 0)
        /\ pc' = [pc EXCEPT ![p] = "lq_list_quotes"]
        /\ result' = [result EXCEPT ![p] = NoResult]
        /\ UNCHANGED <<stores, pricing, ordering>>

\* A sum past u32::MAX panics where overflow is checked and wraps elsewhere.
ListQuotes_list_quotes(p) ==
    /\ pc[p] = "lq_list_quotes"
    /\ \E ok \in BOOLEAN, wraps \in BOOLEAN :
        /\ Called(p, "list_quotes", ok)
        /\ IF ~ok
           THEN Return(p, "Repo", None)
           ELSE LET found == list_quotes(quotes, frame[p].employee_id)
                    overflows == \E i \in DOMAIN found : ItemCount(found[i]) > U32Max
                IN  IF overflows /\ ~wraps
                    THEN Return(p, "Panic", None)
                    ELSE Return(p, "Ok",
                                Some([quotes |->
                                    [i \in DOMAIN found |->
                                        QuoteSummary(found[i],
                                                     ItemCount(found[i]) % (U32Max + 1))]]))
    /\ UNCHANGED <<stores, frame, pre, calls, pricing, ordering>>

GetQuoteDetails_execute(p) ==
    \E e \in EmployeeIds, quote_id \in QuoteIds :
        /\ pc[p] = "idle"
        /\ calls < MaxCalls
        /\ calls' = calls + 1
        /\ frame' = [frame EXCEPT ![p] =
                        [IdleFrame EXCEPT !.op = "GetQuoteDetails", !.employee_id = e]
                            @@ [quote_id |-> quote_id]]
        /\ log' = [log EXCEPT ![p] = << >>]
        /\ pre' = [pre EXCEPT ![p] = Snapshot]
        /\ pc' = [pc EXCEPT ![p] = "gd_get_quote"]
        /\ result' = [result EXCEPT ![p] = NoResult]
        /\ UNCHANGED <<stores, pricing, ordering>>

GetQuoteDetails_get_quote(p) ==
    /\ pc[p] = "gd_get_quote"
    /\ \E ok \in BOOLEAN :
        /\ Called(p, "get_quote", ok)
        /\ IF ~ok
           THEN Return(p, "Repo", None)
           ELSE LET record == get_quote(quotes, frame[p].employee_id, frame[p].quote_id)
                IN  IF ~is_some(record)
                    THEN Return(p, "NotFound", None)
                    ELSE Return(p, "Ok",
                                Some([quote_id |-> unwrap(record).id,
                                      submitted_at |-> unwrap(record).submitted_at,
                                      items |-> unwrap(record).items,
                                      subtotal |-> unwrap(record).subtotal,
                                      fee |-> unwrap(record).fee,
                                      tax |-> unwrap(record).tax,
                                      total |-> unwrap(record).total]))
    /\ UNCHANGED <<stores, frame, pre, calls, pricing, ordering>>

NextRecords ==
    \/ Next
    \/ \E p \in Procs :
        \/ ListQuotes_execute(p)
        \/ ListQuotes_list_quotes(p)
        \/ GetQuoteDetails_execute(p)
        \/ GetQuoteDetails_get_quote(p)

SpecRecords == Init /\ [][NextRecords]_vars

IsPrefix(s, t) == Len(s) <= Len(t) /\ SubSeq(t, 1, Len(s)) = s

\* C30: no step of the pipeline (cart mutations, GetQuote, ConfirmOrder,
\* ListQuotes, GetQuoteDetails) removes or changes a stored quote or a
\* stored invoice: each store after the step is the store before it, or that
\* store with one record appended.
C30_RecordsImmutable ==
    [][/\ IsPrefix(quotes, quotes')
       /\ IsPrefix(invoices, invoices')
       /\ Len(quotes') <= Len(quotes) + 1
       /\ Len(invoices') <= Len(invoices) + 1]_vars

\* GetQuoteDetails has read back, unchanged, the quote that an earlier
\* GetQuote stored.
C30_Witness ==
    \E p \in Procs :
        /\ Returned(p, "GetQuoteDetails")
        /\ result[p].kind = "Ok"
        /\ Len(quotes) = 1
        /\ quotes[1].employee_id = frame[p].employee_id
        /\ unwrap(result[p].out).quote_id = quotes[1].id
        /\ unwrap(result[p].out).items = quotes[1].items
        /\ unwrap(result[p].out).total = quotes[1].total

\* C31: add_item(p, q) with q >= 1 succeeds, sets the quantity n of an
\* existing line for p to min(n + q, u32::MAX) in place, appends the line
\* (p, q) when the cart has none for p, and leaves every other line as it
\* was; add_item(p, 0) fails with InvalidQuantity and leaves the cart as it was.
C31_AddItemMergesSaturating ==
    frame[1].last.op = "add_item" =>
        LET before == frame[1].last.before
            p == frame[1].last.product_id
            q == frame[1].last.quantity
        IN  IF q = 0
            THEN /\ result[1].kind = "InvalidQuantity"
                 /\ TheCart = before
            ELSE /\ result[1].kind = "Ok"
                 /\ TheCart.employee_id = before.employee_id
                 /\ OtherLines(TheCart, p) = OtherLines(before, p)
                 /\ IF HasLine(before, p)
                    THEN /\ Len(TheCart.items) = Len(before.items)
                         /\ \A i \in DOMAIN before.items :
                                /\ TheCart.items[i].product_id = before.items[i].product_id
                                /\ TheCart.items[i].quantity =
                                       IF before.items[i].product_id = p
                                       THEN Min({before.items[i].quantity + q, U32Max})
                                       ELSE before.items[i].quantity
                    ELSE TheCart.items =
                             Append(before.items, [product_id |-> p, quantity |-> q])

\* add_item has just met, in a cart of two lines, a line whose quantity
\* plus the added one passes u32::MAX, and left it at u32::MAX.
C31_Witness ==
    /\ frame[1].last.op = "add_item"
    /\ frame[1].last.quantity >= 1
    /\ Len(frame[1].last.before.items) = 2
    /\ HasLine(frame[1].last.before, frame[1].last.product_id)
    /\ QuantityOf(frame[1].last.before, frame[1].last.product_id) < U32Max
    /\ QuantityOf(frame[1].last.before, frame[1].last.product_id)
           + frame[1].last.quantity > U32Max
    /\ QuantityOf(TheCart, frame[1].last.product_id) = U32Max

\* The e-mail of the SubmitQuote invocation in slot p has been sent.
EmailSent(p) == InSubmitQuote(p) /\ PortOk(p, "send")

\* C32: the body of the e-mail SubmitQuote sends carries the school and the
\* delivery window of the invoice it saved, and the description, quantity
\* and price of that invoice's first line alone, however many lines the
\* invoice has; for an invoice of no lines it carries an empty description,
\* quantity 0 and price 0.
C32_EmailBodyFirstLineOnly ==
    \A p \in Procs :
        EmailSent(p) =>
            LET invoice == Last(ord_invoices)
                body == Last(ord_outbox).body
            IN  /\ DOMAIN body = {"school", "delivery_window", "line_item_description",
                                  "line_item_quantity", "line_item_price"}
                /\ body.school = invoice.school
                /\ body.delivery_window = invoice.delivery_window
                /\ IF Len(invoice.line_items) = 0
                   THEN /\ body.line_item_description = ""
                        /\ body.line_item_quantity = 0
                        /\ body.line_item_price = f64_zero
                   ELSE /\ body.line_item_description = invoice.line_items[1].description
                        /\ body.line_item_quantity = invoice.line_items[1].quantity
                        /\ body.line_item_price = invoice.line_items[1].price

\* An e-mail has been sent for an invoice of two lines of different
\* products, and its body describes the first.
C32_Witness ==
    \E p \in Procs :
        /\ EmailSent(p)
        /\ Len(Last(ord_invoices).line_items) = 2
        /\ Last(ord_invoices).line_items[1].description
               # Last(ord_invoices).line_items[2].description
        /\ Last(ord_outbox).body.line_item_description
               = Last(ord_invoices).line_items[1].description

(***************************************************************************)
(* Quote history over stored carts of any content: GetQuote, ListQuotes    *)
(* and GetQuoteDetails called on a store where employee 1 holds a sampled  *)
(* cart (src/core/use_cases/src/lib.rs:326-458).                           *)
(***************************************************************************)
InitHistory ==
    /\ employees = SeedEmployees
    /\ AccountStores
    /\ \E lines \in CartLineSamples :
           carts = [e \in EmployeeIds |->
                        IF e = 1 /\ lines # << >>
                        THEN Some([employee_id |-> e, items |-> lines])
                        ELSE None]
    /\ invoices = << >>
    /\ invoice_next_id = 1
    /\ quotes = << >>
    /\ quote_next_id = 1
    /\ sent = << >>
    /\ pc = [p \in Procs |-> "idle"]
    /\ frame = [p \in Procs |-> IdleFrame]
    /\ result = [p \in Procs |-> NoResult]
    /\ log = [p \in Procs |-> << >>]
    /\ pre = [p \in Procs |-> Snapshot]
    /\ calls = 0
    /\ pricing = DefaultPolicy
    /\ OrderingStores

NextHistory ==
    \E p \in Procs :
        \/ GetQuote_execute(p)
        \/ GetQuote_get_cart(p)
        \/ GetQuote_build_cart_lines(p)
        \/ GetQuote_create_quote(p)
        \/ ListQuotes_execute(p)
        \/ ListQuotes_list_quotes(p)
        \/ GetQuoteDetails_execute(p)
        \/ GetQuoteDetails_get_quote(p)

SpecHistory == InitHistory /\ [][NextHistory]_vars

\* The stored quotes of an employee, in creation order.
OwnedBy(e) == SelectSeq(quotes, LAMBDA quote : quote.employee_id = e)

\* ListQuotes(e) answers with one summary per stored quote of e, in creation
\* order, and GetQuoteDetails(e, id) answers NotFound unless a stored quote
\* has that id and owner e, whose fields it then returns.
QuoteHistoryIsolated ==
    \A p \in Procs :
        /\ (Returned(p, "ListQuotes") /\ result[p].kind = "Ok") =>
               LET owned == OwnedBy(frame[p].employee_id)
                   listed == unwrap(result[p].out).quotes
               IN  /\ Len(listed) = Len(owned)
                   /\ \A i \in DOMAIN owned :
                          /\ listed[i].quote_id = owned[i].id
                          /\ listed[i].total = owned[i].total
        /\ (Returned(p, "GetQuoteDetails") /\ ~PortFailed(p)) =>
               LET mine == { i \in DOMAIN quotes :
                                 /\ quotes[i].id = frame[p].quote_id
                                 /\ quotes[i].employee_id = frame[p].employee_id }
               IN  IF mine = {}
                   THEN result[p].kind = "NotFound"
                   ELSE /\ result[p].kind = "Ok"
                        /\ \E i \in mine :
                               /\ unwrap(result[p].out).quote_id = quotes[i].id
                               /\ unwrap(result[p].out).items = quotes[i].items
                               /\ unwrap(result[p].out).subtotal = quotes[i].subtotal
                               /\ unwrap(result[p].out).fee = quotes[i].fee
                               /\ unwrap(result[p].out).tax = quotes[i].tax
                               /\ unwrap(result[p].out).total = quotes[i].total
                               /\ unwrap(result[p].out).submitted_at = quotes[i].submitted_at

\* ListQuotes(e), its port answering, returns Ok with every item_count the
\* sum of the quantities of the lines of its quote.
ItemCountIsSum ==
    \A p \in Procs :
        (Returned(p, "ListQuotes") /\ ~PortFailed(p)) =>
            /\ result[p].kind = "Ok"
            /\ LET owned == OwnedBy(frame[p].employee_id)
                   listed == unwrap(result[p].out).quotes
               IN  \A i \in DOMAIN listed :
                       listed[i].item_count =
                           SumSeq([k \in DOMAIN owned[i].items |-> owned[i].items[k].quantity])

\* C33: ListQuotes(e) returns exactly the stored quotes owned by e, in
\* creation order, each with item_count the sum of its line quantities, and
\* GetQuoteDetails(e, id) returns NotFound whenever no stored quote has that
\* id and owner e, so no employee is handed the quote of another.
C33_QuoteHistoryIsolated == QuoteHistoryIsolated /\ ItemCountIsSum

(***************************************************************************)
(* RegisterEmployeeInteractor::execute (src/core/use_cases/src/lib.rs:     *)
(* 70-108) over InMemoryEmployeeRepository (src/datastore/src/lib.rs:      *)
(* 34-69), called from the threads of the runtime.  A text is kept as the  *)
(* pieces it falls into when cut around its outer spaces and every '@'.    *)
(***************************************************************************)
NameSamples == {"Cy", " Cy ", " "}
EmailSamples == {"ann@example.com", "cy@example.com", "cy.example.com"}
PasswordSamples == {"pw3", " "}

Pieces(text) ==
    CASE text = "Cy" -> <<"Cy">>
      [] text = " Cy " -> <<" ", "Cy", " ">>
      [] text = " " -> <<" ">>
      [] text = "ann@example.com" -> <<"ann", "@", "example.com">>
      [] text = "cy@example.com" -> <<"cy", "@", "example.com">>
      [] text = "cy.example.com" -> <<"cy.example.com">>
      [] text = "pw3" -> <<"pw3">>
      [] text = "dan@schools.nyc.gov" -> <<"dan", "@", "schools.nyc.gov">>
      [] text = " dan@schools.nyc.gov " -> <<" ", "dan", "@", "schools.nyc.gov", " ">>
      [] text = "dan@SCHOOLS.NYC.GOV" -> <<"dan", "@", "SCHOOLS.NYC.GOV">>
      [] text = "dan@example.com" -> <<"dan", "@", "example.com">>
      [] OTHER -> <<text>>

\* The text of the given pieces.
Text(pieces) ==
    CHOOSE text \in NameSamples \cup EmailSamples \cup PasswordSamples \cup {""} \cup
                   {"dan@schools.nyc.gov", "dan@SCHOOLS.NYC.GOV", "dan@example.com"} :
        IF text = "" THEN pieces = << >> ELSE Pieces(text) = pieces

RECURSIVE trim_start(_)
trim_start(pieces) ==
    IF pieces # << >> /\ Head(pieces) = " " THEN trim_start(Tail(pieces)) ELSE pieces

RECURSIVE trim_end(_)
trim_end(pieces) ==
    IF pieces # << >> /\ pieces[Len(pieces)] = " "
    THEN trim_end(SubSeq(pieces, 1, Len(pieces) - 1))
    ELSE pieces

trim(pieces) == trim_end(trim_start(pieces))

\* trimmed.split('@') has two parts, neither empty.
email_is_valid(email) ==
    LET trimmed == trim(Pieces(email))
        ats == { i \in DOMAIN trimmed : trimmed[i] = "@" }
    IN  /\ Cardinality(ats) = 1
        /\ 1 \notin ats
        /\ Len(trimmed) \notin ats

find_by_email(emps, email) ==
    LET hits == { i \in DOMAIN emps : emps[i].email = email }
    IN  IF hits = {} THEN None ELSE Some(emps[Min(hits)])

add_employee(emps, next_id, name, email, password) ==
    LET employee == [id |-> next_id, name |-> name, email |-> email, password |-> password]
    IN  [employee |-> employee, store |-> Append(emps, employee), next_id |-> next_id + 1]

RegisterFrame(name, email, password) ==
    [op |-> "RegisterEmployee", name |-> name, email |-> email, password |-> password,
     before |-> employees, added |-> None]

RegisterEmployee_execute(t) ==
    \E name \in NameSamples, email \in EmailSamples, password \in PasswordSamples :
        /\ pc[t] = "idle"
        /\ calls < MaxCalls
        /\ calls' = calls + 1
        /\ frame' = [frame EXCEPT ![t] =
                        RegisterFrame(Text(trim(Pieces(name))), email, password)]
        /\ log' = [log EXCEPT ![t] = << >>]
        /\ pre' = [pre EXCEPT ![t] = Snapshot]
        /\ IF trim(Pieces(name)) = << >>
           THEN Return(t, "Validation", Some("name cannot be empty"))
           ELSE IF ~email_is_valid(email)
           THEN Return(t, "Validation", Some("email must look like an email address"))
           ELSE IF trim(Pieces(password)) = << >>
           THEN Return(t, "Validation", Some("password cannot be empty"))
           ELSE /\ pc' = [pc EXCEPT ![t] = "re_find_by_email"]
                /\ result' = [result EXCEPT ![t] = NoResult]
        /\ UNCHANGED <<stores, pricing, ordering>>

RegisterEmployee_find_by_email(t) ==
    /\ pc[t] = "re_find_by_email"
    /\ \E ok \in BOOLEAN :
        /\ Called(t, "find_by_email", ok)
        /\ IF ~ok
           THEN Return(t, "Repo", None)
           ELSE IF is_some(find_by_email(employees, frame[t].email))
           THEN Return(t, "Validation", Some("email already registered"))
           ELSE /\ pc' = [pc EXCEPT ![t] = "re_add_employee"]
                /\ UNCHANGED result
    /\ UNCHANGED <<stores, frame, pre, calls, pricing, ordering>>

RegisterEmployee_add_employee(t) ==
    /\ pc[t] = "re_add_employee"
    /\ \E ok \in BOOLEAN :
        /\ Called(t, "add_employee", ok)
        /\ IF ~ok
           THEN /\ Return(t, "Repo", None)
                /\ UNCHANGED <<employees, employee_next_id, frame>>
           ELSE LET made == add_employee(employees, employee_next_id, frame[t].name,
                                         frame[t].email, frame[t].password)
                IN  /\ employees' = made.store
                    /\ employee_next_id' = made.next_id
                    /\ frame' = [frame EXCEPT ![t].added = Some(made.employee)]
                    /\ Return(t, "Ok", Some([employee_id |-> made.employee.id,
                                             name |-> made.employee.name,
                                             email |-> made.employee.email]))
    /\ UNCHANGED <<carts, invoices, invoice_next_id, quotes, quote_next_id, sent,
                   sessions, session_next_id, pre, calls, pricing, ordering>>

NextRegister ==
    \E t \in Threads :
        \/ RegisterEmployee_execute(t)
        \/ RegisterEmployee_find_by_email(t)
        \/ RegisterEmployee_add_employee(t)

SpecRegister == InitCarts /\ [][NextRegister]_vars

\* The stored employees whose e-mail address is the given one.
Registered(emps, email) == { i \in DOMAIN emps : emps[i].email = email }

\* Employees keep distinct identities, and a RegisterEmployee invocation for
\* an address registered when it began ends, its port answering, in
\* Validation without adding an employee.
RegisterSerialGuarantees ==
    /\ \A i, j \in DOMAIN employees : i # j => employees[i].id # employees[j].id
    /\ \A t \in Threads :
           (/\ Returned(t, "RegisterEmployee")
            /\ ~PortFailed(t)
            /\ Registered(frame[t].before, frame[t].email) # {}) =>
               /\ result[t].kind = "Validation"
               /\ frame[t].added = None

\* C34: no two stored employees share an e-mail address and no two share an
\* identity, whatever the interleaving of RegisterEmployee invocations, and
\* an invocation for an address already registered fails with Validation
\* and adds no employee.
C34_RegisteredEmailsUnique ==
    /\ \A i, j \in DOMAIN employees : i # j => employees[i].email # employees[j].email
    /\ RegisterSerialGuarantees

(***************************************************************************)
(* SignInInteractor::execute and SignOutInteractor::execute                *)
(* (src/core/use_cases/src/lib.rs:129-166) over InMemorySessionRepository  *)
(* (src/datastore/src/lib.rs:3274-3309), called from the threads of the    *)
(* runtime over the seed employees.                                        *)
(***************************************************************************)
\* format!("session-{}", next_id)
Token(n) == <<"session-", n>>

SignInEmails == {"ann@example.com", "bob@example.com", "cy@example.com"}
SignInPasswords == {"pw1", "pw2"}
TokenSamples == {Token(n) : n \in 1 .. MaxCalls} \cup {<<"forged-", 1>>}

create_session(store, next_id, employee_id) ==
    LET session == [token |-> Token(next_id), employee_id |-> employee_id]
    IN  [session |-> session,
         store |-> {s \in store : s.token # session.token} \cup {session},
         next_id |-> next_id + 1]

remove_session(store, token) == {s \in store : s.token # token}

SignIn_execute(t) ==
    \E email \in SignInEmails, password \in SignInPasswords :
        /\ pc[t] = "idle"
        /\ calls < MaxCalls
        /\ calls' = calls + 1
        /\ frame' = [frame EXCEPT ![t] =
                        [op |-> "SignIn", email |-> email, password |-> password,
                         employee |-> None, session |-> None]]
        /\ log' = [log EXCEPT ![t] = << >>]
        /\ pre' = [pre EXCEPT ![t] = Snapshot]
        /\ pc' = [pc EXCEPT ![t] = "si_find_by_email"]
        /\ result' = [result EXCEPT ![t] = NoResult]
        /\ UNCHANGED <<stores, pricing, ordering>>

\* Faulty variant: the password is not compared.
SignIn_find_by_email_without_password_check(t) ==
    /\ pc[t] = "si_find_by_email"
    /\ \E ok \in BOOLEAN :
        /\ Called(t, "find_by_email", ok)
        /\ IF ~ok
           THEN Return(t, "Repo", None) /\ UNCHANGED frame
           ELSE LET found == find_by_email(employees, frame[t].email)
                IN  IF ~is_some(found)
                    THEN Return(t, "Unauthorized", None) /\ UNCHANGED frame
                    ELSE /\ frame' = [frame EXCEPT ![t].employee = found]
                         /\ pc' = [pc EXCEPT ![t] = "si_create_session"]
                         /\ UNCHANGED result
    /\ UNCHANGED <<stores, pre, calls, pricing, ordering>>

SignIn_find_by_email(t) ==
    /\ pc[t] = "si_find_by_email"
    /\ \E ok \in BOOLEAN :
        /\ Called(t, "find_by_email", ok)
        /\ IF ~ok
           THEN Return(t, "Repo", None) /\ UNCHANGED frame
           ELSE LET found == find_by_email(employees, frame[t].email)
                IN  IF ~is_some(found)
                    THEN Return(t, "Unauthorized", None) /\ UNCHANGED frame
                    ELSE IF unwrap(found).password # frame[t].password
                    THEN Return(t, "Unauthorized", None) /\ UNCHANGED frame
                    ELSE /\ frame' = [frame EXCEPT ![t].employee = found]
                         /\ pc' = [pc EXCEPT ![t] = "si_create_session"]
                         /\ UNCHANGED result
    /\ UNCHANGED <<stores, pre, calls, pricing, ordering>>

SignIn_create_session(t) ==
    /\ pc[t] = "si_create_session"
    /\ \E ok \in BOOLEAN :
        /\ Called(t, "create_session", ok)
        /\ IF ~ok
           THEN /\ Return(t, "Repo", None)
                /\ UNCHANGED <<sessions, session_next_id, frame>>
           ELSE LET employee == unwrap(frame[t].employee)
                    made == create_session(sessions, session_next_id, employee.id)
                IN  /\ sessions' = made.store
                    /\ session_next_id' = made.next_id
                    /\ frame' = [frame EXCEPT ![t].session = Some(made.session)]
                    /\ Return(t, "Ok", Some([session_token |-> made.session.token,
                                             employee_id |-> employee.id,
                                             name |-> employee.name]))
    /\ UNCHANGED <<employees, employee_next_id, carts, invoices, invoice_next_id, quotes,
                   quote_next_id, sent, pre, calls, pricing, ordering>>

SignOut_execute(t) ==
    \E token \in TokenSamples :
        /\ pc[t] = "idle"
        /\ calls < MaxCalls
        /\ calls' = calls + 1
        /\ frame' = [frame EXCEPT ![t] = [op |-> "SignOut", token |-> token]]
        /\ log' = [log EXCEPT ![t] = << >>]
        /\ pre' = [pre EXCEPT ![t] = Snapshot]
        /\ pc' = [pc EXCEPT ![t] = "so_remove_session"]
        /\ result' = [result EXCEPT ![t] = NoResult]
        /\ UNCHANGED <<stores, pricing, ordering>>

SignOut_remove_session(t) ==
    /\ pc[t] = "so_remove_session"
    /\ \E ok \in BOOLEAN :
        /\ Called(t, "remove_session", ok)
        /\ IF ~ok
           THEN Return(t, "Repo", None) /\ UNCHANGED sessions
           ELSE /\ sessions' = remove_session(sessions, frame[t].token)
                /\ Return(t, "Ok", Some([success |-> TRUE]))
    /\ UNCHANGED <<employees, employee_next_id, session_next_id, carts, invoices,
                   invoice_next_id, quotes, quote_next_id, sent, frame, pre, calls,
                   pricing, ordering>>

NextSessions ==
    \E t \in Threads :
        \/ SignIn_execute(t)
        \/ SignIn_find_by_email(t)
        \/ SignIn_create_session(t)
        \/ SignOut_execute(t)
        \/ SignOut_remove_session(t)

SpecSessions == InitCarts /\ [][NextSessions]_vars

\* The email names a stored employee whose password is the given one.
Authenticates(email, password) ==
    \E i \in DOMAIN employees :
        /\ employees[i].email = email
        /\ \A j \in 1 .. i - 1 : employees[j].email # email
        /\ employees[i].password = password

TokensOf(store) == {s.token : s \in store}

\* The tokens issued so far.
Issued == {Token(n) : n \in 1 .. session_next_id - 1}

SessionsSound ==
    /\ \A s1, s2 \in sessions : s1.token = s2.token => s1 = s2
    /\ TokensOf(sessions) \subseteq Issued
    /\ \A s \in sessions : \E i \in DOMAIN employees : employees[i].id = s.employee_id
    /\ \A t \in Threads :
           /\ (Returned(t, "SignIn") /\ ~PortFailed(t)) =>
                  IF Authenticates(frame[t].email, frame[t].password)
                  THEN /\ result[t].kind = "Ok"
                       /\ frame[t].session # None
                       /\ unwrap(result[t].out).session_token = unwrap(frame[t].session).token
                  ELSE /\ result[t].kind = "Unauthorized"
                       /\ frame[t].session = None
                       /\ Len(log[t]) = 1

SessionStep ==
    /\ session_next_id' >= session_next_id
    /\ \A s \in sessions' \ sessions :
           /\ s.token = Token(session_next_id)
           /\ s.token \notin Issued
           /\ session_next_id' = session_next_id + 1
           /\ \E t \in Threads :
                  /\ frame[t].op = "SignIn"
                  /\ pc[t] = "si_create_session" /\ pc'[t] = "idle"
                  /\ Authenticates(frame[t].email, frame[t].password)
                  /\ s.employee_id = unwrap(find_by_email(employees, frame[t].email)).id
    /\ \A s \in sessions \ sessions' :
           \E t \in Threads :
               /\ frame[t].op = "SignOut"
               /\ frame[t].token = s.token
               /\ pc[t] = "so_remove_session" /\ result'[t].kind = "Ok"
    /\ \A t \in Threads :
           (pc[t] = "so_remove_session" /\ result'[t].kind = "Ok") =>
               frame[t].token \notin TokensOf(sessions')

\* C35: in every state each stored session has its own token, one issued to
\* a stored employee; a session is only ever stored by a SignIn whose email
\* names a stored employee and whose password is that employee's, under a
\* token never issued before; a SignOut that returns Ok leaves no session
\* under its token, and only such a SignOut removes a session, so that no
\* stored token has been signed out since it was issued; a SignIn with an
\* unknown email or a wrong password returns Unauthorized after its one
\* lookup and creates no session.
C35_SessionsAuthentic == [](SessionsSound) /\ [][SessionStep]_vars

\* A session is stored under the second token after the first one was
\* signed out.
C35_Witness ==
    /\ session_next_id = 3
    /\ TokensOf(sessions) = {Token(2)}
    /\ \E t \in Threads : Returned(t, "SignOut") /\ result[t].kind = "Ok"
                          /\ frame[t].token = Token(1)

(***************************************************************************)
(* The Variant A pipeline with ViewCart: every interactor that reads or    *)
(* writes carts, from the stores as constructed.                           *)
(***************************************************************************)
NextCartPipeline ==
    \/ Next
    \/ \E p \in Procs :
        \/ ViewCart_execute(p)
        \/ ViewCart_get_cart(p)
        \/ ViewCart_build_cart_lines(p)

SpecCartPipeline == Init /\ [][NextCartPipeline]_vars

CartInteractors == {"AddItemToCart", "UpdateCart", "ViewCart"}

\* C36: every line of every stored cart is for a product of the catalog, a
\* cart interactor call that returned an error, its ports answering, has
\* left the stored carts as they were, and ViewCart never returns NotFound.
C36_StoredCartsInCatalog ==
    /\ \A e \in EmployeeIds : AllInCatalog(LinesOf(carts[e]))
    /\ \A p \in Procs :
           /\ (/\ frame[p].op \in CartInteractors
               /\ Returned(p, frame[p].op)
               /\ ~PortFailed(p)
               /\ result[p].kind # "Ok") => carts = pre[p].carts
           /\ Returned(p, "ViewCart") => result[p].kind # "NotFound"

\* ViewCart never returns NotFound.
ViewCartNeverNotFound ==
    \A p \in Procs : Returned(p, "ViewCart") => result[p].kind # "NotFound"

(***************************************************************************)
(* Checkout under concurrency: ConfirmOrder, AddItemToCart and UpdateCart  *)
(* invocations, one per thread, over a store where employee 1 holds a cart *)
(* of one line (src/core/use_cases/src/lib.rs:487-545).                    *)
(***************************************************************************)
ConcurrentConfirmOrder_execute(t) ==
    /\ frame[t].op = "none"
    /\ ConfirmOrder_execute(t)

InitCheckout ==
    /\ employees = SeedEmployees
    /\ AccountStores
    /\ carts = [e \in EmployeeIds |->
                   IF e = 1
                   THEN Some(add_item(Cart_empty(1), Products[1].id, 1).cart)
                   ELSE None]
    /\ invoices = << >>
    /\ invoice_next_id = 1
    /\ quotes = << >>
    /\ quote_next_id = 1
    /\ sent = << >>
    /\ pc = [t \in Threads |-> "idle"]
    /\ frame = [t \in Threads |-> IdleFrame]
    /\ result = [t \in Threads |-> NoResult]
    /\ log = [t \in Threads |-> << >>]
    /\ pre = [t \in Threads |-> Snapshot]
    /\ calls = 0
    /\ pricing = DefaultPolicy
    /\ OrderingStores

NextCheckout ==
    \E t \in Threads :
        \/ ConcurrentConfirmOrder_execute(t)
        \/ ConfirmOrder_get_by_id(t)
        \/ ConfirmOrder_get_cart(t)
        \/ ConfirmOrder_build_cart_lines(t)
        \/ ConfirmOrder_create_invoice(t)
        \/ ConfirmOrder_send_invoice(t)
        \/ ConfirmOrder_clear_cart(t)
        \/ ConcurrentAddItem_execute(t)
        \/ AddItemToCart_find_product(t)
        \/ AddItemToCart_get_cart(t)
        \/ AddItemToCart_save_cart(t)
        \/ AddItemToCart_build_cart_lines(t)
        \/ ConcurrentUpdateCart_execute(t)
        \/ UpdateCart_get_cart(t)
        \/ UpdateCart_save_cart(t)
        \/ UpdateCart_build_cart_lines(t)

SpecCheckout == InitCheckout /\ [][NextCheckout]_vars

InvoicesOf(e) == { i \in DOMAIN invoices : invoices[i].employee_id = e }

EmailsOf(e) ==
    { k \in DOMAIN sent : \E i \in InvoicesOf(e) : sent[k].invoice_id = invoices[i].id }

\* No invocation but ConfirmOrder has begun: the cart is the populated one
\* the confirmations found, or has been cleared by one of them.
OnlyConfirmations == \A t \in Threads : frame[t].op \in {"none", "ConfirmOrder"}

\* C37: when ConfirmOrder invocations for one employee run concurrently over
\* one populated cart, at most one invoice is persisted and at most one
\* e-mail is sent for it.
C37_OneInvoicePerCheckout ==
    OnlyConfirmations =>
        \A e \in EmployeeIds :
            /\ Cardinality(InvoicesOf(e)) <= 1
            /\ Cardinality(EmailsOf(e)) <= 1

\* The step is the successful clear_cart of the ConfirmOrder invocation of thread t.
ClearsCart(t) ==
    /\ frame[t].op = "ConfirmOrder"
    /\ pc[t] = "co_clear_cart"
    /\ result'[t].kind = "Ok"

\* C38: every cart line that the clear_cart of a ConfirmOrder invocation
\* removes is in the invoice that invocation persisted, with the same
\* quantity, also when an AddItemToCart or UpdateCart for the same employee
\* runs between the invocation's cart read and its clear.
C38_ClearedLinesInvoiced ==
    [][\A t \in Threads :
           ClearsCart(t) =>
               LET removed == LinesOf(carts[frame[t].employee_id])
                   invoiced == unwrap(frame[t].invoice).items
               IN  \A i \in DOMAIN removed :
                       \E k \in DOMAIN invoiced :
                           /\ invoiced[k].product_id = removed[i].product_id
                           /\ invoiced[k].quantity = removed[i].quantity]_vars

(***************************************************************************)
(* SignUpEmployeeInteractor::execute (src/core/use_cases/src/ordering/     *)
(* sign_up_employee_interactor.rs:19-65) over the ordering                 *)
(* InMemoryEmployeeRepository (src/apps/web/src/ordering/adapters.rs:      *)
(* 64-81), from an empty employee repository and the seeded schools.       *)
(***************************************************************************)
SignUpEmails == {Dan, " dan@schools.nyc.gov ", "dan@SCHOOLS.NYC.GOV", "dan@example.com"}
SignUpPasswords == {"CorrectHorseBatteryStaple", "AnotherLongPassphrase1", "sixteen-chars-16"}

\* str::len: the number of bytes of the text.
ByteLen(text) ==
    CASE text = "CorrectHorseBatteryStaple" -> 25
      [] text = "AnotherLongPassphrase1" -> 22
      [] text = "sixteen-chars-16" -> 16

to_lowercase(text) == IF text = "SCHOOLS.NYC.GOV" THEN "schools.nyc.gov" ELSE text

Profile(first_name, last_name, title, school, phone) ==
    [first_name |-> first_name, last_name |-> last_name, title |-> title,
     school |-> school, phone |-> phone]

SignUpProfiles ==
    { Profile("Dan", "Diaz", "Teacher", DEFAULT_SCHOOL_NAME, "212-555-0100"),
      Profile("Mallory", "Moss", "Principal", UnlistedSchool, "212-555-0199"),
      Profile(" ", "Diaz", "Teacher", DEFAULT_SCHOOL_NAME, "212-555-0100"),
      Profile("Dan", "Diaz", "Teacher", DEFAULT_SCHOOL_NAME, " ") }

DeliveryWindows == {None, Some(" "), Some("9am-11am")}

is_blank(value) == trim(Pieces(value)) = << >>

\* email.split('@').nth(1).unwrap_or_default().to_lowercase() == "schools.nyc.gov"
is_school_email(email) ==
    LET pieces == Pieces(email)
        ats == { i \in DOMAIN pieces : pieces[i] = "@" }
        domain == IF ats = {} \/ Min(ats) = Len(pieces) \/ Min(ats) + 1 \in ats
                  THEN ""
                  ELSE pieces[Min(ats) + 1]
    IN  to_lowercase(domain) = "schools.nyc.gov"

OrdEmployee(email, input, delivery_window) ==
    [email |-> email,
     password |-> input.password,
     first_name |-> input.profile.first_name,
     last_name |-> input.profile.last_name,
     title |-> input.profile.title,
     school_name |-> input.profile.school,
     phone |-> input.profile.phone,
     delivery_window |-> delivery_window]

\* HashMap::insert: the entry of the key is set, whatever it held.
ord_insert(store, employee) == [store EXCEPT ![employee.email] = Some(employee)]

SignUpKeys == {Text(trim(Pieces(email))) : email \in SignUpEmails}

SignUpEmployee_execute(p) ==
    \E email \in SignUpEmails, password \in SignUpPasswords,
       profile \in SignUpProfiles, delivery_window \in DeliveryWindows :
        LET input == [email |-> email, password |-> password, profile |-> profile,
                      delivery_window |-> delivery_window]
            trimmed == Text(trim(Pieces(email)))
        IN  /\ pc[p] = "idle"
            /\ calls < MaxCalls
            /\ calls' = calls + 1
            /\ frame' = [frame EXCEPT ![p] =
                            [op |-> "SignUpEmployee", input |-> input, email |-> trimmed,
                             before |-> ord_employees]]
            /\ log' = [log EXCEPT ![p] = << >>]
            /\ pre' = [pre EXCEPT ![p] = SnapshotB]
            /\ IF trimmed = "" \/ ~is_school_email(trimmed)
               THEN Return(p, "Err", Some("email must be a schools.nyc.gov address"))
               ELSE IF ByteLen(password) <= 16
               THEN Return(p, "Err", Some("password must be longer than 16 characters"))
               ELSE IF \/ is_blank(profile.first_name) \/ is_blank(profile.last_name)
                       \/ is_blank(profile.title) \/ is_blank(profile.school)
                       \/ is_blank(profile.phone)
               THEN Return(p, "Err", Some("all required fields must be provided"))
               ELSE IF ~is_some(delivery_window) \/ is_blank(unwrap(delivery_window))
               THEN Return(p, "Err", Some("delivery window is required"))
               ELSE /\ pc' = [pc EXCEPT ![p] = "su_find_by_name"]
                    /\ result' = [result EXCEPT ![p] = NoResult]
            /\ UNCHANGED <<stores, pricing, ordering>>

SignUpEmployee_find_by_name(p) ==
    /\ pc[p] = "su_find_by_name"
    /\ \E ok \in BOOLEAN :
        /\ Called(p, "find_by_name", ok)
        /\ IF ~ok
           THEN Return(p, "Err", Some(PortError("find_by_name")))
           ELSE /\ pc' = [pc EXCEPT ![p] = "su_insert"]
                /\ UNCHANGED result
    /\ UNCHANGED <<stores, frame, pre, calls, pricing, ordering>>

SignUpEmployee_insert(p) ==
    /\ pc[p] = "su_insert"
    /\ \E ok \in BOOLEAN :
        /\ Called(p, "insert", ok)
        /\ IF ~ok
           THEN Return(p, "Err", Some("insert failed")) /\ UNCHANGED ord_employees
           ELSE /\ ord_employees' =
                       ord_insert(ord_employees,
                                  OrdEmployee(frame[p].email, frame[p].input,
                                              unwrap(frame[p].input.delivery_window)))
                /\ Return(p, "Ok", Some([employee_email |-> frame[p].email]))
    /\ UNCHANGED <<stores, frame, pre, calls, pricing, ord_schools, ord_carts, ord_quotes,
                   ord_invoices, ord_outbox>>

InitSignUp ==
    /\ employees = SeedEmployees
    /\ AccountStores
    /\ carts = [e \in EmployeeIds |-> None]
    /\ invoices = << >>
    /\ invoice_next_id = 1
    /\ quotes = << >>
    /\ quote_next_id = 1
    /\ sent = << >>
    /\ pc = [p \in Procs |-> "idle"]
    /\ frame = [p \in Procs |-> IdleFrameB]
    /\ result = [p \in Procs |-> NoResult]
    /\ log = [p \in Procs |-> << >>]
    /\ pricing = DefaultPolicy
    /\ ord_employees = [email \in SignUpKeys |-> None]
    /\ ord_schools = SeedSchools
    /\ ord_carts = [e \in OrdEmails |-> None]
    /\ ord_quotes = << >>
    /\ ord_invoices = << >>
    /\ ord_outbox = << >>
    /\ pre = [p \in Procs |-> SnapshotB]
    /\ calls = 0

NextSignUp ==
    \E p \in Procs :
        \/ SignUpEmployee_execute(p)
        \/ SignUpEmployee_find_by_name(p)
        \/ SignUpEmployee_insert(p)

SpecSignUp == InitSignUp /\ [][NextSignUp]_vars

\* A sign-up that returned an error has stored no account.
RejectedSignUpStoresNothing ==
    \A p \in Procs :
        (Returned(p, "SignUpEmployee") /\ result[p].kind = "Err") =>
            ord_employees = frame[p].before

\* C39: no step replaces or alters a stored account, so that the password,
\* school and other fields stored for an email stay those of the first
\* successful sign-up for it, and a rejected sign-up stores no account.
C39_SignUpKeepsStoredAccounts ==
    /\ [](RejectedSignUpStoresNothing)
    /\ [][\A email \in SignUpKeys :
              is_some(ord_employees[email]) => ord_employees'[email] = ord_employees[email]]_vars

====
